---- MODULE Spec2Model ----
(***************************************************************************)
(* A model of snowmerak/gofn: the monad runtime (Result, Option, Future)   *)
(* and the generator (shouldGenerate, generateCurriedFunc) together with   *)
(* the matcher and pipeline composer the generator emits.                  *)
(*                                                                         *)
(* Each subsystem has its own variables and its own specification; a       *)
(* specification leaves the variables of the other subsystems untouched.   *)
(***************************************************************************)
EXTENDS Integers, Sequences, FiniteSets, TLC

(***************************************************************************)
(* Bounds of the model.                                                    *)
(***************************************************************************)
NumCallers == 3
MaxVal == 2

(***************************************************************************)
(* monad.Result[T]: a value and an error; the nil error is "nil".          *)
(***************************************************************************)
Nil == "nil"
Zero == 0
Vals == 0..MaxVal
Errors == {"boom", "context canceled", "context deadline exceeded"}

Ok(v) == [val |-> v, err |-> Nil]
Err(e) == [val |-> Zero, err |-> e]
IsOk(r) == r.err = Nil
ZeroResult == [val |-> Zero, err |-> Nil]

(***************************************************************************)
(* monad.Future[T]: mu/cond, done, result.  Goroutines 1..NumCallers call  *)
(* one operation each; goroutine p + NumCallers is the helper goroutine    *)
(* that AwaitWithContext called by p starts.                               *)
(***************************************************************************)
VARIABLES
    mu,         \* holder of f.mu (0: unlocked)
    done,       \* f.done
    result,     \* f.result
    waitq,      \* goroutines parked in f.cond.Wait()
    pc,         \* position of every goroutine
    op,         \* the operation a goroutine called
    arg,        \* the Result a goroutine passes to complete
    ret,        \* what a goroutine's call returned: [avail, r]
    chan,       \* the buffered channel `done` of each AwaitWithContext call
    ctxErr,     \* ctx.Err(): Nil until the context is cancelled or expires
    firstArg,   \* history: the Result passed by the first complete that locked
    cancelFirst,\* history: ctx was cancelled while the Future was not done
    selDone     \* history: f.done at the moment a caller's select decided

futVars == <<mu, done, result, waitq, pc, op, arg, ret, chan, ctxErr,
             firstArg, cancelFirst, selDone>>

Callers == 1..NumCallers
Helper(p) == p + NumCallers
Helpers == {Helper(p) : p \in Callers}
Owner(h) == h - NumCallers
Procs == Callers \cup Helpers

NoRet == [avail |-> FALSE, r |-> ZeroResult]

\* NewFuture: unlocked, not done, the zero Result.
NewFuture ==
    /\ mu = 0
    /\ done = FALSE
    /\ result = ZeroResult
    /\ waitq = {}
    /\ pc = [p \in Procs |-> IF p \in Callers THEN "idle" ELSE "unborn"]
    /\ op = [p \in Procs |-> "none"]
    /\ arg = [p \in Procs |-> ZeroResult]
    /\ ret = [p \in Procs |-> NoRet]
    /\ chan = [p \in Callers |-> <<>>]
    /\ ctxErr = Nil
    /\ firstArg = [set |-> FALSE, r |-> ZeroResult]
    /\ cancelFirst = FALSE
    /\ selDone = [p \in Callers |-> FALSE]


(***************************************************************************)
(* f.cond.Broadcast(): every parked goroutine is made runnable.  The       *)
(* operator gives the goroutines that stay parked.                         *)
(***************************************************************************)
SignalOne(ws) == IF ws = {} THEN {} ELSE ws \ {CHOOSE w \in ws : TRUE}

Broadcast(ws) == {}

\* The body of complete when f.done is not consulted (every call stores).
completeAlways(d, r, a) == [done |-> TRUE, result |-> a, wake |-> TRUE]

(***************************************************************************)
(* The critical section of complete(result): with f.done set it returns    *)
(* at once; otherwise it stores the result, sets done and broadcasts.      *)
(***************************************************************************)
complete(d, r, a) ==
    IF d THEN [done |-> d, result |-> r, wake |-> FALSE]
         ELSE [done |-> TRUE, result |-> a, wake |-> TRUE]

\* f.cond.L.Lock() by p, as the first statement of the operation o it calls.
Lock(p, o, a) ==
    /\ pc[p] = "idle"
    /\ mu = 0
    /\ mu' = p
    /\ op' = [op EXCEPT ![p] = o]
    /\ arg' = [arg EXCEPT ![p] = a]

\* complete(a) by p: Lock, the critical section; the deferred Unlock follows.
completeCall(p, a) ==
    /\ Lock(p, "complete", a)
    /\ LET c == complete(done, result, a) IN
        /\ done' = c.done
        /\ result' = c.result
        /\ waitq' = IF c.wake THEN Broadcast(waitq) ELSE waitq
    /\ pc' = [pc EXCEPT ![p] = "unlock"]
    /\ firstArg' = IF firstArg.set THEN firstArg ELSE [set |-> TRUE, r |-> a]
    /\ UNCHANGED <<ret, chan, ctxErr, cancelFirst, selDone>>

\* Complete(value): complete(Ok(value)).
Complete(p, v) == completeCall(p, Ok(v))

\* CompleteWithError(err): complete(Err(err)).
CompleteWithError(p, e) == completeCall(p, Err(e))

\* Poll: under the lock, (f.result, true) when done, else (zero, false).
Poll(p) ==
    /\ Lock(p, "Poll", ZeroResult)
    /\ ret' = [ret EXCEPT ![p] = IF done THEN [avail |-> TRUE, r |-> result]
                                         ELSE [avail |-> FALSE, r |-> ZeroResult]]
    /\ pc' = [pc EXCEPT ![p] = "unlock"]
    /\ UNCHANGED <<done, result, waitq, chan, ctxErr, firstArg, cancelFirst, selDone>>

\* Await: Lock, then the loop `for !f.done { f.cond.Wait() }`.
Await(p) ==
    /\ Lock(p, "Await", ZeroResult)
    /\ pc' = [pc EXCEPT ![p] = "a_loop"]
    /\ UNCHANGED <<done, result, waitq, ret, chan, ctxErr, firstArg, cancelFirst, selDone>>

\* The helper goroutine of AwaitWithContext enters f.Await().
HelperAwait(h) ==
    /\ h \in Helpers
    /\ pc[h] = "spawned"
    /\ mu = 0
    /\ mu' = h
    /\ pc' = [pc EXCEPT ![h] = "a_loop"]
    /\ UNCHANGED <<done, result, waitq, op, arg, ret, chan, ctxErr, firstArg,
                   cancelFirst, selDone>>

\* The loop test: not done: cond.Wait() parks p and unlocks, atomically.
AwaitWait(p) ==
    /\ pc[p] = "a_loop"
    /\ ~done
    /\ waitq' = waitq \cup {p}
    /\ mu' = 0
    /\ pc' = [pc EXCEPT ![p] = "a_parked"]
    /\ UNCHANGED <<done, result, op, arg, ret, chan, ctxErr, firstArg, cancelFirst, selDone>>

\* cond.Wait() returns: p was woken and locks again, back to the loop test.
AwaitWake(p) ==
    /\ pc[p] = "a_parked"
    /\ p \notin waitq
    /\ mu = 0
    /\ mu' = p
    /\ pc' = [pc EXCEPT ![p] = "a_loop"]
    /\ UNCHANGED <<done, result, waitq, op, arg, ret, chan, ctxErr, firstArg,
                   cancelFirst, selDone>>

\* The loop test: done: return f.result.
AwaitReturn(p) ==
    /\ pc[p] = "a_loop"
    /\ done
    /\ ret' = [ret EXCEPT ![p] = [avail |-> TRUE, r |-> result]]
    /\ pc' = [pc EXCEPT ![p] = "unlock"]
    /\ UNCHANGED <<mu, done, result, waitq, op, arg, chan, ctxErr, firstArg,
                   cancelFirst, selDone>>

\* The deferred f.cond.L.Unlock(); a helper goes on to send, a caller returns.
Unlock(p) ==
    /\ pc[p] = "unlock"
    /\ mu' = 0
    /\ pc' = [pc EXCEPT ![p] = IF p \in Helpers THEN "h_send" ELSE "returned"]
    /\ UNCHANGED <<done, result, waitq, op, arg, ret, chan, ctxErr, firstArg,
                   cancelFirst, selDone>>

\* AwaitWithContext: make(chan Result[T], 1) and `go func() { done <- f.Await() }()`.
AwaitWithContext(p) ==
    /\ pc[p] = "idle"
    /\ op' = [op EXCEPT ![p] = "AwaitWithContext"]
    /\ chan' = [chan EXCEPT ![p] = <<>>]
    /\ pc' = [pc EXCEPT ![p] = "w_select", ![Helper(p)] = "spawned"]
    /\ UNCHANGED <<mu, done, result, waitq, arg, ret, ctxErr, firstArg, cancelFirst, selDone>>

\* The helper's `done <- f.Await()`: the buffer of one never blocks it.
HelperSend(h) ==
    /\ h \in Helpers
    /\ pc[h] = "h_send"
    /\ chan' = [chan EXCEPT ![Owner(h)] = Append(@, ret[h].r)]
    /\ pc' = [pc EXCEPT ![h] = "exited"]
    /\ UNCHANGED <<mu, done, result, waitq, op, arg, ret, ctxErr, firstArg,
                   cancelFirst, selDone>>

\* The select when the ctx.Done() case yields the zero error.
selectNilErr(c, e) ==
    (IF c # <<>> THEN {[r |-> Head(c), recv |-> TRUE]} ELSE {})
        \cup (IF e # Nil THEN {[r |-> Err(Nil), recv |-> FALSE]} ELSE {})

(***************************************************************************)
(* The select of AwaitWithContext: the cases that are ready, given the     *)
(* channel's buffer and ctx.Err(), each with the value it returns.  The    *)
(* select blocks while none is ready and picks either when both are.       *)
(***************************************************************************)
select(c, e) ==
    (IF c # <<>> THEN {[r |-> Head(c), recv |-> TRUE]} ELSE {})
        \cup (IF e # Nil THEN {[r |-> Err(e), recv |-> FALSE]} ELSE {})

Select(p) ==
    /\ pc[p] = "w_select"
    /\ \E s \in select(chan[p], ctxErr) :
        /\ ret' = [ret EXCEPT ![p] = [avail |-> TRUE, r |-> s.r]]
        /\ chan' = [chan EXCEPT ![p] = IF s.recv THEN Tail(@) ELSE @]
    /\ selDone' = [selDone EXCEPT ![p] = done]
    /\ pc' = [pc EXCEPT ![p] = "returned"]
    /\ UNCHANGED <<mu, done, result, waitq, op, arg, ctxErr, firstArg, cancelFirst>>

\* The context is cancelled (cancel()) or its deadline passes; the first wins.
CtxDone(e) ==
    /\ ctxErr = Nil
    /\ ctxErr' = e
    /\ cancelFirst' = ~done
    /\ UNCHANGED <<mu, done, result, waitq, pc, op, arg, ret, chan, firstArg, selDone>>

\* A step of goroutine p inside the operation it has called.
Step(p) ==
    \/ HelperAwait(p)
    \/ AwaitWait(p)
    \/ AwaitWake(p)
    \/ AwaitReturn(p)
    \/ Unlock(p)
    \/ HelperSend(p)
    \/ Select(p)

\* Complete, CompleteWithError, Poll and Await called from any goroutine.
FutureCore ==
    \/ \E p \in Callers, v \in Vals \ {Zero} : Complete(p, v)
    \/ \E p \in Callers : CompleteWithError(p, "boom")
    \/ \E p \in Callers : Poll(p)
    \/ \E p \in Callers : Await(p)
    \/ \E p \in Callers : AwaitWait(p) \/ AwaitWake(p) \/ AwaitReturn(p) \/ Unlock(p)

\* The same with AwaitWithContext and the context's cancellation.
FutureStep ==
    \/ \E p \in Callers, v \in Vals \ {Zero} : Complete(p, v)
    \/ \E p \in Callers : CompleteWithError(p, "boom")
    \/ \E p \in Callers : Poll(p)
    \/ \E p \in Callers : Await(p)
    \/ \E p \in Callers : AwaitWithContext(p)
    \/ \E p \in Procs : Step(p)
    \/ \E e \in {"context canceled", "context deadline exceeded"} : CtxDone(e)

(***************************************************************************)
(* generator.shouldGenerate(sourcePath, outPath): the staleness test.      *)
(* A file's os.Stat either fails with a not-exist error, fails with        *)
(* another error, or gives its modification time.                          *)
(***************************************************************************)
VARIABLES
    sourcePath, \* the sourcePath argument ("" when there is no source info)
    fs,         \* os.Stat's answer for every path
    sg          \* what shouldGenerate returned: [called, generate, reason, err]

genVars == <<sourcePath, fs, sg>>

MaxTime == 3

SrcFile == "example.go"
OutFile == "person_record_gen.go"
Paths == {SrcFile, OutFile}

NotExist == [kind |-> "notexist", mtime |-> 0]
StatFailed == [kind |-> "error", mtime |-> 0]
FileAt(t) == [kind |-> "file", mtime |-> t]
Stats == {NotExist, StatFailed} \cup {FileAt(t) : t \in 0..MaxTime}

\* os.Stat(path); the empty path names no file.
Stat(path) == IF path = "" THEN NotExist ELSE fs[path]

\* time.Time.Before
Before(t, u) == t < u

\* With the comparison turned round: !src.Before(out).
NotAfter(t, u) == t <= u

\* generate, reason, err as returned.
Answer(g, why, e) == [called |-> TRUE, generate |-> g, reason |-> why, err |-> e]

\* The final comparison using NotAfter for Before.
upToDateStrict(outInfo, srcInfo) == ~NotAfter(outInfo.mtime, srcInfo.mtime)

\* `!outInfo.ModTime().Before(srcInfo.ModTime())`
upToDate(outInfo, srcInfo) == ~Before(outInfo.mtime, srcInfo.mtime)

shouldGenerate(src, out) ==
    IF src = "" THEN Answer(TRUE, "no-source-info", Nil)
    ELSE LET srcInfo == Stat(src) IN
        IF srcInfo.kind = "notexist" THEN Answer(TRUE, "source-not-found", Nil)
        ELSE IF srcInfo.kind = "error" THEN Answer(TRUE, "stat-source-failed", "stat error")
        ELSE LET outInfo == Stat(out) IN
            IF outInfo.kind = "notexist" THEN Answer(TRUE, "no-generated-file", Nil)
            ELSE IF outInfo.kind = "error" THEN Answer(TRUE, "stat-out-failed", "stat error")
            ELSE IF upToDate(outInfo, srcInfo) THEN Answer(FALSE, "up-to-date", Nil)
            ELSE Answer(TRUE, "outdated", Nil)

GenIdle ==
    /\ sourcePath = ""
    /\ fs = [f \in Paths |-> NotExist]
    /\ sg = [called |-> FALSE, generate |-> FALSE, reason |-> "", err |-> Nil]

GenInit ==
    /\ sourcePath \in {"", SrcFile}
    /\ fs \in [Paths -> Stats]
    /\ sg = [called |-> FALSE, generate |-> FALSE, reason |-> "", err |-> Nil]

\* One call of shouldGenerate for the output unit.
ShouldGenerate ==
    /\ ~sg.called
    /\ sg' = shouldGenerate(sourcePath, OutFile)
    /\ UNCHANGED <<sourcePath, fs>>

(***************************************************************************)
(* monad.Option[T] as a pattern: value is a pointer (<<>> for nil, <<v>>   *)
(* for &v) and isWildcard a flag.                                          *)
(***************************************************************************)
Some(v) == [value |-> <<v>>, isWildcard |-> FALSE]
None == [value |-> <<>>, isWildcard |-> FALSE]
Wildcard == [value |-> <<>>, isWildcard |-> TRUE]

\* equals: any(a) == any(b), on a comparable field type.
equals(a, b) == a = b

\* Match with the nil test left out of the wildcard test: None matches too.
MatchNilAsWildcard(o, v) ==
    IF o.isWildcard \/ o.value = <<>> THEN TRUE ELSE equals(o.value[1], v)

\* Option.Match
Match(o, v) ==
    IF o.isWildcard THEN TRUE
    ELSE IF o.value = <<>> THEN FALSE
    ELSE equals(o.value[1], v)

(***************************************************************************)
(* The generated matcher (AddressMatcher): a target and the matched flag.  *)
(* The n-th When/WhenGuard call of a chain passes action number n.  The    *)
(* return-value matcher stores the matching clause's value in result.      *)
(***************************************************************************)
VARIABLES
    variant,    \* "action" (x.Match()) or "return" (MatchXReturn[R](x))
    target,     \* m.target, one value per field
    matched,    \* m.matched
    mresult,    \* m.result of the return-value matcher
    ncalls,     \* When/WhenGuard calls made on the matcher so far
    invoked,    \* the clause functions invoked, in order
    defaulted,  \* "no": chain open; else what the closing Default did
    final,      \* the value the return-value chain yields
    lastPats,   \* the patterns of the latest When/WhenGuard call
    lastHits,   \* what Option.Match returned for each of them
    lastGuard,  \* what the guard of that call answers (true for When)
    firstMatch  \* history: the first call whose patterns and guard all hold

matchVars == <<variant, target, matched, mresult, ncalls, invoked, defaulted,
               final, lastPats, lastHits, lastGuard, firstMatch>>

NumFields == 2
MaxClauses == 3

FieldVals == {"", "Seoul"}
Fields == 1..NumFields
Targets == [Fields -> FieldVals]
Patterns == {None, Wildcard} \cup {Some(v) : v \in FieldVals}
DefaultValue == 0

\* The guards a WhenGuard call may pass, as predicates of the target.
Guards == {"true", "false", "firstFieldEmpty"}
Guard(g, t) ==
    CASE g = "true" -> TRUE
      [] g = "false" -> FALSE
      [] OTHER -> t[1] = ""

\* street.Match(m.target.Street) && city.Match(m.target.City) && ...
AllMatch(pats, t) == \A i \in Fields : Match(pats[i], t[i])

\* When without `m.matched = true`.
whenNoMark(m, pats, g, n) ==
    IF m.matched THEN [matched |-> m.matched, result |-> m.result, call |-> FALSE]
    ELSE IF AllMatch(pats, m.target) /\ Guard(g, m.target)
         THEN [matched |-> FALSE, result |-> n, call |-> TRUE]
         ELSE [matched |-> m.matched, result |-> m.result, call |-> FALSE]

\* When without `if m.matched { return m }`.
whenNoReturn(m, pats, g, n) ==
    IF AllMatch(pats, m.target) /\ Guard(g, m.target)
         THEN [matched |-> TRUE, result |-> n, call |-> TRUE]
         ELSE [matched |-> m.matched, result |-> m.result, call |-> FALSE]

(***************************************************************************)
(* The body of When (guard "true") and WhenGuard on matcher m: the new     *)
(* matched flag and result, and whether the clause's function is called.   *)
(***************************************************************************)
when(m, pats, g, n) ==
    IF m.matched THEN [matched |-> m.matched, result |-> m.result, call |-> FALSE]
    ELSE IF AllMatch(pats, m.target) /\ Guard(g, m.target)
         THEN [matched |-> TRUE, result |-> n, call |-> TRUE]
         ELSE [matched |-> m.matched, result |-> m.result, call |-> FALSE]

Matcher == [target |-> target, matched |-> matched, result |-> mresult]

\* x.Match() / MatchXReturn[R](x): a matcher bound to the target.
MatchInit ==
    /\ variant \in {"action", "return"}
    /\ target \in Targets
    /\ matched = FALSE
    /\ mresult = DefaultValue
    /\ ncalls = 0
    /\ invoked = <<>>
    /\ defaulted = "no"
    /\ final = DefaultValue
    /\ lastPats = [i \in Fields |-> Wildcard]
    /\ lastHits = [i \in Fields |-> TRUE]
    /\ lastGuard = TRUE
    /\ firstMatch = 0

MatchIdle ==
    /\ variant = "action"
    /\ target = [i \in Fields |-> ""]
    /\ matched = FALSE
    /\ mresult = DefaultValue
    /\ ncalls = 0
    /\ invoked = <<>>
    /\ defaulted = "no"
    /\ final = DefaultValue
    /\ lastPats = [i \in Fields |-> Wildcard]
    /\ lastHits = [i \in Fields |-> TRUE]
    /\ lastGuard = TRUE
    /\ firstMatch = 0

Clause(pats, g) ==
    /\ defaulted = "no"
    /\ ncalls < MaxClauses
    /\ LET n == ncalls + 1
           w == when(Matcher, pats, g, n)
       IN /\ ncalls' = n
          /\ matched' = w.matched
          /\ mresult' = w.result
          /\ invoked' = IF w.call THEN Append(invoked, n) ELSE invoked
          /\ firstMatch' = IF firstMatch = 0 /\ AllMatch(pats, target) /\ Guard(g, target)
                           THEN n ELSE firstMatch
    /\ lastPats' = pats
    /\ lastHits' = [i \in Fields |-> Match(pats[i], target[i])]
    /\ lastGuard' = Guard(g, target)
    /\ UNCHANGED <<variant, target, defaulted, final>>

\* m.When(p1, ..., pk, action)
When(pats) == Clause(pats, "true")

\* m.WhenGuard(p1, ..., pk, guard, action)
WhenGuard(pats, g) == Clause(pats, g)

\* m.Default(action), or Default(value) / DefaultWith(fn) of the return variant.
Default ==
    /\ defaulted = "no"
    /\ defaulted' = IF matched THEN "skipped" ELSE "invoked"
    /\ final' = IF matched THEN mresult ELSE DefaultValue
    /\ UNCHANGED <<variant, target, matched, mresult, ncalls, invoked, lastPats,
                   lastHits, lastGuard, firstMatch>>

MatchStep ==
    \/ \E pats \in [Fields -> Patterns] : When(pats)
    \/ \E pats \in [Fields -> Patterns], g \in Guards : WhenGuard(pats, g)
    \/ Default

(***************************************************************************)
(* The generated pipeline composer (DataPipelineComposer and               *)
(* DataPipelineComposerWithErrorHandler): stages f1..fn run on one input.  *)
(* Stage i maps v to Ok(StageValue(i, v)), or fails with StageError(i)     *)
(* when i is in failing.                                                   *)
(***************************************************************************)
VARIABLES
    withHandler, \* TRUE for the composer with an errorHandler
    handler,     \* which errorHandler was passed
    failing,     \* the stages that fail when invoked
    input,       \* the argument of the composed function
    stage,       \* the stage the composed function is about to invoke
    cur,         \* the value passed to that stage
    pend,        \* the failure waiting for errorHandler: [i, err], i = 0 for none
    calls,       \* the stage invocations made: <<i, argument>>
    hcalls,      \* the errorHandler invocations made: <<i, err>>
    out          \* the composed function's return: [done, r]

pipeVars == <<withHandler, handler, failing, input, stage, cur, pend, calls,
              hcalls, out>>

NumStages == 3
MaxInput == 2

Stages == 1..NumStages
StageErrors == <<"e1", "e2", "e3", "e4", "e5">>
StageError(i) == StageErrors[i]
StageValue(i, v) == 2 * v + i
FallbackValue == 99

\* f_i(v)
StageFn(i, v) == IF i \in failing THEN Err(StageError(i)) ELSE Ok(StageValue(i, v))

\* The error handlers: XWithFallback(v), XWithLogging(logger), and the
\* example's custom handler that recovers stage 2 only.
Handlers == {"fallback", "logging", "custom"}
errorHandler(h, i, e) ==
    CASE h = "fallback" -> Ok(FallbackValue)
      [] h = "logging" -> Err(e)
      [] OTHER -> IF i = 2 THEN Ok(1) ELSE Err(e)

\* The basic composer going on to the next stage after a failure.
composeNoShortCircuit(i, r) ==
    IF i < NumStages
    THEN [to |-> "stage", r |-> r]
    ELSE [to |-> "return", r |-> r]

(***************************************************************************)
(* The basic composer after stage i returned r: `v, err := r.Unwrap();     *)
(* if err != nil { return Err(err) }` for every stage but the last, whose  *)
(* result is returned as it is.                                            *)
(***************************************************************************)
compose(i, r) ==
    IF i < NumStages
    THEN IF r.err # Nil THEN [to |-> "return", r |-> Err(r.err)]
                        ELSE [to |-> "stage", r |-> r]
    ELSE [to |-> "return", r |-> r]

\* The composer with a handler counting the stages from 0.
composeHandledFromZero(i, r) ==
    IF ~IsOk(r) THEN [to |-> "handler", r |-> r, i |-> i - 1]
    ELSE IF i < NumStages THEN [to |-> "stage", r |-> r, i |-> 0]
    ELSE [to |-> "return", r |-> r, i |-> 0]

(***************************************************************************)
(* The composer with an error handler after stage i returned r: a failure  *)
(* of any stage, the last included, goes to errorHandler(i, err).          *)
(***************************************************************************)
composeHandled(i, r) ==
    IF ~IsOk(r) THEN [to |-> "handler", r |-> r, i |-> i]
    ELSE IF i < NumStages THEN [to |-> "stage", r |-> r, i |-> 0]
    ELSE [to |-> "return", r |-> r, i |-> 0]

NoPend == [i |-> 0, err |-> Nil]
NoOut == [done |-> FALSE, r |-> ZeroResult]

PipeInit ==
    /\ withHandler \in BOOLEAN
    /\ handler \in Handlers
    /\ failing \in SUBSET Stages
    /\ input \in 1..MaxInput
    /\ stage = 1
    /\ cur = input
    /\ pend = NoPend
    /\ calls = <<>>
    /\ hcalls = <<>>
    /\ out = NoOut

PipeIdle ==
    /\ withHandler = FALSE
    /\ handler = "fallback"
    /\ failing = {}
    /\ input = 1
    /\ stage = 1
    /\ cur = 1
    /\ pend = NoPend
    /\ calls = <<>>
    /\ hcalls = <<>>
    /\ out = NoOut

\* The composed function invokes the next stage and acts on its result.
InvokeStage ==
    /\ ~out.done
    /\ pend.i = 0
    /\ LET r == StageFn(stage, cur)
           c == IF withHandler THEN composeHandled(stage, r)
                               ELSE [to |-> compose(stage, r).to,
                                     r |-> compose(stage, r).r, i |-> 0]
       IN /\ calls' = Append(calls, <<stage, cur>>)
          /\ stage' = IF c.to = "stage" THEN stage + 1 ELSE stage
          /\ cur' = IF c.to = "stage" THEN r.val ELSE cur
          /\ pend' = IF c.to = "handler" THEN [i |-> c.i, err |-> r.err] ELSE pend
          /\ out' = IF c.to = "return" THEN [done |-> TRUE, r |-> c.r] ELSE out
    /\ UNCHANGED <<withHandler, handler, failing, input, hcalls>>

\* `return errorHandler(i, err)`
InvokeHandler ==
    /\ ~out.done
    /\ pend.i # 0
    /\ hcalls' = Append(hcalls, <<pend.i, pend.err>>)
    /\ out' = [done |-> TRUE, r |-> errorHandler(handler, pend.i, pend.err)]
    /\ pend' = NoPend
    /\ UNCHANGED <<withHandler, handler, failing, input, stage, cur, calls>>

PipeStep ==
    \/ InvokeStage
    \/ InvokeHandler

(***************************************************************************)
(* generator.generateCurriedFunc.  A string is a sequence of pieces; an    *)
(* identifier is the sequence of its runes, the empty name is <<>>, and a  *)
(* rendered type is a sequence of pieces ("..." first when variadic, as    *)
(* exprString renders *ast.Ellipsis).  The emitted text is the sequence of *)
(* the strings written to the builder.                                     *)
(***************************************************************************)
VARIABLES
    fn,       \* the parser.FuncInfo handed to generateCurriedFunc
    text,     \* the generated source text (<<>> before generation)
    applied,  \* how many closures of the chain have been applied
    env,      \* the arguments bound so far: <<[name, val]>>, innermost last
    passed    \* the call of the original function made: [done, args, returns]

curryVars == <<fn, text, applied, env, passed>>

MaxParams == 2
MaxResults == 2

K(str) == <<str>>
Digits == <<"0", "1", "2", "3", "4", "5", "6", "7", "8", "9">>

FuncNames == {<<"a", "d", "d">>, <<"D", "i", "v">>}
Blank == <<"_">>
ParamNames == {<<"a">>, <<"b">>, <<"x">>, Blank}
PlainTypes == {<<"int">>, <<"string">>}
VariadicTypes == {<<"...", "string">>}

\* unicode.ToUpper on the runes of the names above.
ToUpper(r) ==
    CASE r = "a" -> "A"
      [] r = "d" -> "D"
      [] r = "i" -> "I"
      [] r = "n" -> "N"
      [] r = "p" -> "P"
      [] r = "v" -> "V"
      [] OTHER -> r

exportName(str) ==
    IF str = <<>> THEN str
    ELSE [k \in 1..Len(str) |-> IF k = 1 THEN ToUpper(str[1]) ELSE str[k]]

\* The synthetic name without the index.
paramNameUnindexed(prm, i) ==
    IF prm.name # <<>> THEN prm.name ELSE <<"p", Digits[1]>>

\* paramName(p, i), i counted from 0.
paramName(prm, i) ==
    IF prm.name # <<>> THEN prm.name ELSE <<"p", Digits[i + 1]>>

\* strings.HasPrefix(type, "...")
IsVariadic(type) == Len(type) > 0 /\ type[1] = "..."

\* strings.Repeat("    ", k)
Indent(k) == [j \in 1..k |-> "    "]

\* strings.Join(parts, sep), each part and sep one written string.
RECURSIVE Join(_, _)
Join(parts, sep) ==
    IF Len(parts) = 0 THEN <<>>
    ELSE IF Len(parts) = 1 THEN <<parts[1]>>
    ELSE <<parts[1], sep>> \o Join(Tail(parts), sep)

\* The `func(name type) ` prefixes of remainingType for parameters j..n-1.
RECURSIVE remainingParams(_, _)
remainingParams(f, j) ==
    IF j >= Len(f.params) THEN <<>>
    ELSE <<K("func("), paramName(f.params[j + 1], j), K(" "),
           f.params[j + 1].type, K(") ")>> \o remainingParams(f, j + 1)

\* The result types appended by remainingType.
resultTypes(f) ==
    IF Len(f.results) = 1 THEN <<f.results[1].type>>
    ELSE IF Len(f.results) > 1
         THEN <<K("(")>>
              \o Join([k \in 1..Len(f.results) |-> f.results[k].type], K(", "))
              \o <<K(")")>>
         ELSE <<>>

remainingType(f, i) == remainingParams(f, i) \o resultTypes(f)

\* The nested `return func(name type) <remaining> {` lines for closures i..n-1.
RECURSIVE closures(_, _)
closures(f, i) ==
    IF i >= Len(f.params) THEN <<>>
    ELSE <<Indent(i + 1), K("return func("), paramName(f.params[i + 1], i), K(" "),
           f.params[i + 1].type, K(") ")>>
         \o remainingType(f, i + 1) \o <<K(" {\n")>> \o closures(f, i + 1)

\* The argument loop stopping one parameter early.
callArgsShort(f) ==
    [k \in 1..(Len(f.params) - 1) |->
        IF IsVariadic(f.params[k].type)
        THEN paramName(f.params[k], k - 1) \o <<"...">>
        ELSE paramName(f.params[k], k - 1)]

\* The arguments of the innermost call: the parameter names, a variadic one
\* forwarded as name...
callArgs(f) ==
    [k \in 1..Len(f.params) |->
        IF IsVariadic(f.params[k].type)
        THEN paramName(f.params[k], k - 1) \o <<"...">>
        ELSE paramName(f.params[k], k - 1)]

\* The closing braces, innermost first.
RECURSIVE closing(_)
closing(i) == IF i < 0 THEN <<>> ELSE <<Indent(i + 1), K("}\n")>> \o closing(i - 1)

generateCurriedFunc(f) ==
    LET n == Len(f.params)
        resCount == Len(f.results)
        wrapperName == exportName(f.name) \o <<"Curried">>
        comment == <<K("// Generated curried wrapper for "), f.name, K("\n")>>
    IN IF n = 0
       THEN comment
            \o (IF resCount = 0
                THEN <<K("func "), wrapperName, K("() {")>>
                ELSE <<K("func "), wrapperName, K("() "), f.results[1].type, K(" {")>>)
            \o <<K("\n    ")>>
            \o (IF resCount = 0 THEN <<f.name, K("()\n")>>
                                ELSE <<K("return "), f.name, K("()\n")>>)
            \o <<K("}\n")>>
       ELSE comment
            \o <<K("func "), wrapperName, K("() ")>> \o remainingType(f, 0) \o <<K(" {\n")>>
            \o closures(f, 0)
            \o (IF resCount = 0 THEN <<Indent(n + 1), f.name, K("(")>>
                                ELSE <<Indent(n + 1), K("return "), f.name, K("(")>>)
            \o Join(callArgs(f), K(", ")) \o <<K(")\n")>>
            \o closing(n - 1)
            \o <<K("}\n")>>

(***************************************************************************)
(* The declarations the parser can hand over: parameters all named, with   *)
(* distinct names unless blank (_), or all unnamed; only the last one may  *)
(* be variadic.                                                            *)
(***************************************************************************)
ParamLists(n) ==
    {ps \in [1..n -> [name : ParamNames \cup {<<>>}, type : PlainTypes \cup VariadicTypes]] :
        /\ \A k \in 1..n : IsVariadic(ps[k].type) => k = n
        /\ \/ \A k \in 1..n : ps[k].name = <<>>
           \/ /\ \A k \in 1..n : ps[k].name # <<>>
              /\ \A k, l \in 1..n : (k # l /\ ps[k].name # Blank) => ps[k].name # ps[l].name}

ResultLists(r) == [1..r -> [name : {<<>>}, type : PlainTypes]]

FuncInfos ==
    {[name |-> nm, params |-> ps, results |-> rs] :
        nm \in FuncNames,
        ps \in UNION {ParamLists(n) : n \in 0..MaxParams},
        rs \in UNION {ResultLists(r) : r \in 0..MaxResults}}

(***************************************************************************)
(* Running the generated text: the formal parameter of the k-th closure    *)
(* and the arguments of the innermost call are read from the text.         *)
(***************************************************************************)
\* The positions of the closure headers, outermost first.
ClosureAt(t) == {k \in 1..Len(t) : t[k] = K("return func(")}

RECURSIVE SortedSeq(_)
SortedSeq(S) ==
    IF S = {} THEN <<>>
    ELSE LET m == CHOOSE x \in S : \A y \in S : x <= y
         IN <<m>> \o SortedSeq(S \ {m})

\* The formal parameter names of the closures, outermost first.
Formals(t) == LET at == SortedSeq(ClosureAt(t)) IN [k \in 1..Len(at) |-> t[at[k] + 1]]

\* The innermost statement: from the end of the last header line to its newline.
BodyStart(t) == 1 + (CHOOSE k \in 1..Len(t) :
                        /\ t[k] \in {K(" {\n"), K("() {"), K(" {")}
                        /\ \A l \in (k + 1)..Len(t) : t[l] \notin {K(" {\n"), K("() {"), K(" {")})
BodyEnd(t) == CHOOSE k \in BodyStart(t)..Len(t) :
                  /\ t[k] \in {K(")\n"), K("()\n")}
                  /\ \A l \in BodyStart(t)..(k - 1) : t[l] \notin {K(")\n"), K("()\n")}
Body(t) == SubSeq(t, BodyStart(t), BodyEnd(t))

\* The argument expressions of the innermost call.
CallOpen(b) == CHOOSE k \in 1..Len(b) : b[k] = K("(")
ArgExprs(b) ==
    IF b[Len(b)] = K("()\n") THEN <<>>
    ELSE LET inner == SubSeq(b, CallOpen(b) + 1, Len(b) - 1)
             at == SortedSeq({k \in 1..Len(inner) : inner[k] # K(", ")})
         IN [k \in 1..Len(at) |-> inner[at[k]]]

BodyReturns(b) == \E k \in 1..Len(b) : b[k] = K("return ")

Scalar(v) == [agg |-> FALSE, v |-> <<v>>]
Aggregate(vs) == [agg |-> TRUE, v |-> vs]
\* What an identifier that names no variable stands for: no value.
Unbound == [agg |-> FALSE, v |-> <<>>]

\* The value bound to a name: the innermost binding.  A parameter declared _
\* binds nothing, and _ is not an expression.
Lookup(e, nm) ==
    LET at == {k \in 1..Len(e) : e[k].name = nm}
    IN IF nm = Blank \/ at = {} THEN Unbound
       ELSE e[CHOOSE k \in at : \A l \in at : l <= k].val

\* The arguments the call passes: name... spreads a slice.
RECURSIVE Passed(_, _)
Passed(exprs, e) ==
    IF exprs = <<>> THEN <<>>
    ELSE LET x == exprs[1]
             spread == x[Len(x)] = "..."
             nm == IF spread THEN SubSeq(x, 1, Len(x) - 1) ELSE x
             v == Lookup(e, nm)
         IN (IF spread /\ v.agg THEN [k \in 1..Len(v.v) |-> Scalar(v.v[k])] ELSE <<v>>)
            \o Passed(Tail(exprs), e)

NoCall == [done |-> FALSE, args |-> <<>>, returns |-> FALSE]

CurryInit ==
    /\ fn \in FuncInfos
    /\ text = <<>>
    /\ applied = 0
    /\ env = <<>>
    /\ passed = NoCall

CurryIdle ==
    /\ fn = [name |-> <<"a", "d", "d">>, params |-> <<>>, results |-> <<>>]
    /\ text = <<>>
    /\ applied = 0
    /\ env = <<>>
    /\ passed = NoCall

\* The generator writes the wrapper.
Generate ==
    /\ text = <<>>
    /\ text' = generateCurriedFunc(fn)
    /\ UNCHANGED <<fn, applied, env, passed>>

\* The innermost statement runs with the bindings e.
RunBody(e) ==
    passed' = [done |-> TRUE, args |-> Passed(ArgExprs(Body(text)), e),
               returns |-> BodyReturns(Body(text))]

\* XCurried() of a function without parameters: the call itself.
CallDirect ==
    /\ text # <<>>
    /\ Formals(text) = <<>>
    /\ ~passed.done
    /\ RunBody(env)
    /\ UNCHANGED <<fn, text, applied, env>>

\* The next closure of XCurried() is applied to its argument; the last one
\* runs the innermost statement.  Argument k is the value k; a variadic
\* closure takes the trailing arguments vs.
Apply(vs) ==
    /\ text # <<>>
    /\ applied < Len(Formals(text))
    /\ LET k == applied + 1
           val == IF IsVariadic(fn.params[k].type) THEN Aggregate(vs) ELSE Scalar(k)
           e == Append(env, [name |-> Formals(text)[k], val |-> val])
       IN /\ env' = e
          /\ applied' = k
          /\ IF k = Len(Formals(text)) THEN RunBody(e) ELSE UNCHANGED passed
    /\ UNCHANGED <<fn, text>>

Trailing == {<<>>, <<7>>, <<7, 8>>}

CurryStep ==
    \/ Generate
    \/ CallDirect
    \/ \E vs \in Trailing : Apply(vs)

(***************************************************************************)
(* The generated functional options (ConfigOption, WithHost, ...,          *)
(* NewConfigWithOptions): an option is the closure With<Field>(value).     *)
(***************************************************************************)
VARIABLES
    opts,     \* the opts ...ConfigOption argument, as <<[field, val]>>
    config,   \* the local config of NewConfigWithOptions
    nextOpt,  \* index of the option the range loop applies next
    returned  \* TRUE once NewConfigWithOptions has returned config

optVars == <<opts, config, nextOpt, returned>>

MaxOpts == 3
MaxOptVal == 2

ConfigFields == {"Host", "Port", "Debug"}
OptVals == 0..MaxOptVal
\* Config{}: every field at its zero value.
ZeroConfig == [f \in ConfigFields |-> 0]

\* With<Field>(value): the option as data.
With(f, v) == [field |-> f, val |-> v]
Options == {With(f, v) : f \in ConfigFields, v \in OptVals}

\* An option that leaves a field alone once it is set.
applyOptionIfUnset(c, o) ==
    IF c[o.field] = 0 THEN [c EXCEPT ![o.field] = o.val] ELSE c

\* opt(&config) for opt = With<Field>(value): `c.Field = value`.
applyOption(c, o) == [c EXCEPT ![o.field] = o.val]

OptInit ==
    /\ opts \in UNION {[1..n -> Options] : n \in 0..MaxOpts}
    /\ config = ZeroConfig
    /\ nextOpt = 1
    /\ returned = FALSE

OptIdle ==
    /\ opts = <<>>
    /\ config = ZeroConfig
    /\ nextOpt = 1
    /\ returned = FALSE

\* One iteration of `for _, opt := range opts { opt(&config) }`.
ApplyOption ==
    /\ ~returned
    /\ nextOpt <= Len(opts)
    /\ config' = applyOption(config, opts[nextOpt])
    /\ nextOpt' = nextOpt + 1
    /\ UNCHANGED <<opts, returned>>

\* `return config`
ReturnConfig ==
    /\ ~returned
    /\ nextOpt > Len(opts)
    /\ returned' = TRUE
    /\ UNCHANGED <<opts, config, nextOpt>>

OptStep ==
    \/ ApplyOption
    \/ ReturnConfig

(***************************************************************************)
(* Record synthesis for one struct declaration: generator.isPrivateIdent   *)
(* decides whether anything is generated; what is generated follows the    *)
(* Person example (interface, constructor, one accessor per field).        *)
(***************************************************************************)
VARIABLES
    st,   \* the parser.StructInfo: [name, fields], names as rune sequences
    rec   \* the synthesis outcome: [done, generated, accessors, params, err]

recVars == <<st, rec>>

MaxFields == 3

TypeNames == {<<"p">>, <<"P">>, <<"_", "p">>}
\* <<>> is the name the parser gives an embedded field.
FieldNames == {<<"n">>, <<"a">>, <<"N">>, <<"_", "n">>, <<>>}
StructInfos == {[name |-> nm, fields |-> fl] :
                   nm \in TypeNames, fl \in UNION {[1..k -> FieldNames] : k \in 0..MaxFields}}

\* unicode.IsLower on the runes used here.
IsLower(r) == r \in {"a", "d", "i", "n", "p", "v"}

\* The test without the empty-string case, the first rune tested for not
\* being upper case.
isPrivateIdentNotUpper(str) ==
    IF str = <<>> THEN TRUE ELSE str[1] \notin {"A", "D", "I", "N", "P", "V"}

isPrivateIdent(str) ==
    IF str = <<>> THEN FALSE ELSE IsLower(str[1])

NoRecord == [done |-> FALSE, generated |-> FALSE, accessors |-> <<>>, params |-> <<>>, err |-> Nil]

\* The record synthesizer: skip silently unless the type name and every field
\* name are private; otherwise the interface/accessors (exported field name,
\* returning that field) and the constructor parameters, in declared order.
generateRecord(s) ==
    IF ~isPrivateIdent(s.name) \/ \E k \in 1..Len(s.fields) : ~isPrivateIdent(s.fields[k])
    THEN [done |-> TRUE, generated |-> FALSE, accessors |-> <<>>, params |-> <<>>, err |-> Nil]
    ELSE [done |-> TRUE, generated |-> TRUE,
          accessors |-> [k \in 1..Len(s.fields) |->
                            [name |-> exportName(s.fields[k]), field |-> s.fields[k]]],
          params |-> s.fields, err |-> Nil]

RecInit ==
    /\ st \in StructInfos
    /\ rec = NoRecord

RecIdle ==
    /\ st = [name |-> <<"p">>, fields |-> <<>>]
    /\ rec = NoRecord

\* The record directive is synthesized for the declaration.
GenerateRecord ==
    /\ ~rec.done
    /\ rec' = generateRecord(st)
    /\ UNCHANGED st

(***************************************************************************)
(* parser.ParseDir, the directive of one struct type: the doc comment of   *)
(* the TypeSpec, then the doc comment of the GenDecl of file.Decls that    *)
(* holds it.  A comment's text is a sequence of pieces ("//", " ",         *)
(* "gofn:", a word); a doc comment is nil or a non-empty list of comments. *)
(***************************************************************************)
VARIABLES
    decl,      \* the top-level struct TypeSpec: [doc, blockDoc]
    directive  \* [done, dir]: the Directive recorded for it

dirVars == <<decl, directive>>

MaxDocLines == 2

CommentTexts == {<<"//", "gofn:", "record">>,
                 <<"//", " ", "gofn:", " ", "match", " ">>,
                 <<"//", "gofn:">>,
                 <<"//", " ", "note">>}
NilDoc == [isNil |-> TRUE, list |-> <<>>]
Docs == {NilDoc} \cup
        {[isNil |-> FALSE, list |-> l] : l \in UNION {[1..k -> CommentTexts] : k \in 1..MaxDocLines}}
\* doc is x.Doc, blockDoc the Doc of the GenDecl of file.Decls holding x.
TypeSpecs == [doc : Docs, blockDoc : Docs]

\* strings.TrimPrefix, strings.HasPrefix and strings.TrimSpace on pieces.
TrimPrefix(str, pre) == IF Len(str) > 0 /\ str[1] = pre THEN Tail(str) ELSE str
HasPrefix(str, pre) == Len(str) > 0 /\ str[1] = pre
RECURSIVE TrimSpace(_)
TrimSpace(str) ==
    IF Len(str) = 0 THEN str
    ELSE IF str[1] = " " THEN TrimSpace(Tail(str))
    ELSE IF str[Len(str)] = " " THEN TrimSpace(SubSeq(str, 1, Len(str) - 1))
    ELSE str

\* `for _, c := range doc.List { txt := ...; if HasPrefix(txt, "gofn:") {
\* dir = ...; break } }` starting from dir = "".
RECURSIVE scanDoc(_)
scanDoc(list) ==
    IF list = <<>> THEN <<>>
    ELSE LET txt == TrimSpace(TrimPrefix(list[1], "//"))
         IN IF HasPrefix(txt, "gofn:") THEN TrimSpace(TrimPrefix(txt, "gofn:"))
            ELSE scanDoc(Tail(list))

\* The directive of the *ast.TypeSpec case.
structDirective(x) ==
    LET own == IF ~x.doc.isNil THEN scanDoc(x.doc.list) ELSE <<>>
    IN IF own # <<>> THEN own
       ELSE IF ~x.blockDoc.isNil THEN scanDoc(x.blockDoc.list)
       ELSE <<>>

NoDirective == [done |-> FALSE, dir |-> <<>>]

DirInit ==
    /\ decl \in TypeSpecs
    /\ directive = NoDirective

DirIdle ==
    /\ decl = [doc |-> NilDoc, blockDoc |-> NilDoc]
    /\ directive = NoDirective

\* ast.Inspect reaches the TypeSpec and records its directive.
ScanStruct ==
    /\ ~directive.done
    /\ directive' = [done |-> TRUE, dir |-> structDirective(decl)]
    /\ UNCHANGED decl

(***************************************************************************)
(* parser.ParseDir, the loop over the files of the directory: each file is *)
(* read, parsed and inspected in turn; the first failure returns.          *)
(***************************************************************************)
VARIABLES
    globOk,    \* whether filepath.Glob succeeds
    files,     \* the *.go files in Glob's order: [status, decls]
    nextFile,  \* index of the file the loop handles next (0 before Glob)
    structs,   \* the structs slice built so far: <<file, position>>
    funcs,     \* the funcs slice built so far
    scan       \* ParseDir's return: [done, structs, funcs, err]

parseVars == <<globOk, files, nextFile, structs, funcs, scan>>

MaxFiles == 2
MaxDecls == 2

FileStatus == {"ok", "unreadable", "unparsable"}
DeclKinds == {"struct", "func"}
SourceFiles == [status : FileStatus,
                decls : UNION {[1..k -> DeclKinds] : k \in 0..MaxDecls}]

\* The declarations of kind kd that ast.Inspect appends for file number i.
Found(i, f, kd) ==
    LET at == SortedSeq({k \in 1..Len(f.decls) : f.decls[k] = kd})
    IN [k \in 1..Len(at) |-> <<i, at[k]>>]

NoScan == [done |-> FALSE, structs |-> <<>>, funcs |-> <<>>, err |-> Nil]
\* `return nil, nil, err`
Abort(e) == [done |-> TRUE, structs |-> <<>>, funcs |-> <<>>, err |-> e]

\* A file that fails is skipped and the scan goes on.
scanFileSkipping(i, f) ==
    IF f.status # "ok"
    THEN [abort |-> FALSE, err |-> Nil, structs |-> <<>>, funcs |-> <<>>]
    ELSE [abort |-> FALSE, err |-> Nil,
          structs |-> Found(i, f, "struct"), funcs |-> Found(i, f, "func")]

\* One iteration: ioutil.ReadFile, parser.ParseFile, ast.Inspect.
scanFile(i, f) ==
    IF f.status = "unreadable"
    THEN [abort |-> TRUE, err |-> "read error", structs |-> <<>>, funcs |-> <<>>]
    ELSE IF f.status = "unparsable"
    THEN [abort |-> TRUE, err |-> "parse error", structs |-> <<>>, funcs |-> <<>>]
    ELSE [abort |-> FALSE, err |-> Nil,
          structs |-> Found(i, f, "struct"), funcs |-> Found(i, f, "func")]

ParseInit ==
    /\ globOk \in BOOLEAN
    /\ files \in UNION {[1..n -> SourceFiles] : n \in 0..MaxFiles}
    /\ nextFile = 0
    /\ structs = <<>>
    /\ funcs = <<>>
    /\ scan = NoScan

ParseIdle ==
    /\ globOk = TRUE
    /\ files = <<>>
    /\ nextFile = 0
    /\ structs = <<>>
    /\ funcs = <<>>
    /\ scan = NoScan

\* filepath.Glob(filepath.Join(dir, "*.go"))
Glob ==
    /\ ~scan.done
    /\ nextFile = 0
    /\ IF globOk
       THEN nextFile' = 1 /\ UNCHANGED scan
       ELSE scan' = Abort("glob error") /\ UNCHANGED nextFile
    /\ UNCHANGED <<globOk, files, structs, funcs>>

\* One iteration of `for _, f := range files`.
ScanFile ==
    /\ ~scan.done
    /\ nextFile >= 1
    /\ nextFile <= Len(files)
    /\ LET r == scanFile(nextFile, files[nextFile])
       IN IF r.abort
          THEN scan' = Abort(r.err) /\ UNCHANGED <<nextFile, structs, funcs>>
          ELSE /\ structs' = structs \o r.structs
               /\ funcs' = funcs \o r.funcs
               /\ nextFile' = nextFile + 1
               /\ UNCHANGED scan
    /\ UNCHANGED <<globOk, files>>

\* `return structs, funcs, nil`
ReturnScan ==
    /\ ~scan.done
    /\ nextFile > Len(files)
    /\ scan' = [done |-> TRUE, structs |-> structs, funcs |-> funcs, err |-> Nil]
    /\ UNCHANGED <<globOk, files, nextFile, structs, funcs>>

ParseStep ==
    \/ Glob
    \/ ScanFile
    \/ ReturnScan

(***************************************************************************)
(* monad.Reactive[T]: value, subscribers (id -> callback), nextID and the  *)
(* mutex.  Set and Update start one goroutine per subscriber of their      *)
(* snapshot (`go callback(oldValue, newValue)`).  A callback either        *)
(* records what it was given, or calls back into the same Reactive, or is  *)
(* the one MapReactive subscribes.                                         *)
(***************************************************************************)
VARIABLES
    rvalue,    \* r.value
    rsubs,     \* r.subscribers: id -> kind of callback
    rnextID,   \* r.nextID
    rmutex,    \* 0 when r.mutex is free, else the id of the holder
    wpc,       \* every calling goroutine's position and current call
    gor,       \* the callback goroutines started and not yet finished
    received,  \* per subscription id: the changes its callback was run for
    log,       \* history: the changes in the order they took the lock
    subLife,   \* history: id -> Len(log) when Subscribe returned it (from) and
               \* when Unsubscribe(id) removed it (to), -1 while not yet
    mapped     \* the Reactive made by MapReactive: [made, value, sets]

reactVars == <<rvalue, rsubs, rnextID, rmutex, wpc, gor, received, log, subLife, mapped>>

NumWriters == 1
MaxChanges == 2
MaxSubs == 2

Writers == 1..NumWriters
SubIds == 1..MaxSubs
CallbackKinds == {"record", "reenter"}
ReactiveOps == {"Set", "Update", "Subscribe", "Unsubscribe"}

\* The function passed to Update, and MapReactive's transform.
UpdateFn(x) == x + 1
transform(x) == x + 10

NoCallR == [op |-> "none", arg |-> 0, kind |-> "record", old |-> 0, new |-> 0, snap |-> <<>>, n |-> 0]
IdleW == [at |-> "idle", call |-> NoCallR]

\* The lock id of a callback goroutine.
GorId(g) == NumWriters + g.n * MaxSubs + g.sub

NewReactive ==
    /\ rvalue = 0
    /\ rsubs = <<>>
    /\ rnextID = 0
    /\ rmutex = 0
    /\ wpc = [p \in Writers |-> IdleW]
    /\ gor = {}
    /\ received = [i \in SubIds |-> <<>>]
    /\ log = <<>>
    /\ subLife = [i \in SubIds |-> [from |-> -1, to |-> -1]]
    /\ mapped = [made |-> FALSE, value |-> 0, sets |-> <<>>]

\* r.mutex.Unlock() left out.
UnlockForgotten(holder) == holder

\* r.mutex.Unlock()
UnlockR(holder) == 0

\* delete(r.subscribers, id) removing nothing.
deleteNothing(subs, id) == subs

\* delete(r.subscribers, id)
delete(subs, id) == [i \in (DOMAIN subs) \ {id} |-> subs[i]]

(***************************************************************************)
(* The critical section of call c (op, arg, kind) on the Reactive, from    *)
(* Lock to Unlock: the new value, subscribers and nextID, and the call     *)
(* with oldValue, newValue and the copied subscribers filled in.           *)
(***************************************************************************)
critical(c) ==
    CASE c.op = "Set" ->
            [value |-> c.arg, subs |-> rsubs, nextID |-> rnextID,
             call |-> [c EXCEPT !.old = rvalue, !.new = c.arg,
                                !.snap = rsubs, !.n = Len(log) + 1]]
      [] c.op = "Update" ->
            [value |-> UpdateFn(rvalue), subs |-> rsubs, nextID |-> rnextID,
             call |-> [c EXCEPT !.old = rvalue, !.new = UpdateFn(rvalue),
                                !.snap = rsubs, !.n = Len(log) + 1]]
      [] c.op = "Subscribe" ->
            [value |-> rvalue, nextID |-> rnextID + 1,
             subs |-> [i \in (DOMAIN rsubs) \cup {rnextID + 1} |->
                          IF i = rnextID + 1 THEN c.kind ELSE rsubs[i]],
             call |-> [c EXCEPT !.arg = rnextID + 1]]
      [] OTHER ->
            [value |-> rvalue, subs |-> delete(rsubs, c.arg), nextID |-> rnextID,
             call |-> c]

Changes(c) == c.op \in {"Set", "Update"}

\* The calls the bounds leave room for.
Callable(c) ==
    /\ Changes(c) => Len(log) < MaxChanges
    /\ c.op = "Subscribe" => rnextID < MaxSubs

SetVals == {5}

Calls ==
    {[NoCallR EXCEPT !.op = "Set", !.arg = v] : v \in SetVals}
    \cup {[NoCallR EXCEPT !.op = "Update"]}
    \cup {[NoCallR EXCEPT !.op = "Subscribe", !.kind = k] : k \in CallbackKinds}
    \cup {[NoCallR EXCEPT !.op = "Unsubscribe", !.arg = i] : i \in SubIds}

\* What a re-entering callback of subscription i may call on r.
ReenterCalls(i) ==
    {[NoCallR EXCEPT !.op = "Set", !.arg = v] : v \in SetVals}
    \cup {[NoCallR EXCEPT !.op = "Update"]}
    \cup {[NoCallR EXCEPT !.op = "Subscribe"]}
    \cup {[NoCallR EXCEPT !.op = "Unsubscribe", !.arg = i]}

\* The effect of the critical section on the Reactive and the histories.
Critical(c, holder) ==
    LET r == critical(c)
    IN /\ rvalue' = r.value
       /\ rsubs' = r.subs
       /\ rnextID' = r.nextID
       /\ rmutex' = UnlockR(holder)
       /\ log' = IF Changes(c) THEN Append(log, [old |-> r.call.old, new |-> r.call.new,
                                                 snap |-> DOMAIN r.call.snap])
                 ELSE log
       /\ subLife' = CASE c.op = "Subscribe" ->
                             [subLife EXCEPT ![r.call.arg].from = Len(log)]
                        [] c.op = "Unsubscribe" /\ c.arg \in DOMAIN rsubs ->
                             [subLife EXCEPT ![c.arg].to = Len(log)]
                        [] OTHER -> subLife

\* `for _, callback := range subscribers { go callback(oldValue, newValue) }`
Spawned(c) ==
    {[sub |-> i, kind |-> c.snap[i], old |-> c.old, new |-> c.new, n |-> c.n,
      at |-> "start", call |-> NoCallR] : i \in DOMAIN c.snap}

\* A goroutine calls Set, Update, Subscribe or Unsubscribe: Lock, the
\* critical section and Unlock; Subscribe and Unsubscribe then return.
WCall(p, c) ==
    /\ wpc[p].at = "idle"
    /\ rmutex = 0
    /\ Callable(c)
    /\ Critical(c, p)
    /\ wpc' = [wpc EXCEPT ![p] =
                  IF Changes(c) THEN [at |-> "notify", call |-> critical(c).call]
                  ELSE IdleW]
    /\ UNCHANGED <<gor, received, mapped>>

\* Set and Update start the callbacks of their snapshot and return.
WNotify(p) ==
    /\ wpc[p].at = "notify"
    /\ gor' = gor \cup Spawned(wpc[p].call)
    /\ wpc' = [wpc EXCEPT ![p] = IdleW]
    /\ UNCHANGED <<rvalue, rsubs, rnextID, rmutex, received, log, subLife, mapped>>

\* A recording callback runs.
GRecord(g) ==
    /\ g.kind = "record"
    /\ received' = [received EXCEPT ![g.sub] = Append(@, g.n)]
    /\ gor' = gor \ {g}
    /\ UNCHANGED <<rvalue, rsubs, rnextID, rmutex, wpc, log, subLife, mapped>>

\* A callback that calls r.Get() (RLock, read, RUnlock).
GGet(g) ==
    /\ g.kind = "reenter"
    /\ g.at = "start"
    /\ rmutex = 0
    /\ received' = [received EXCEPT ![g.sub] = Append(@, g.n)]
    /\ gor' = gor \ {g}
    /\ UNCHANGED <<rvalue, rsubs, rnextID, rmutex, wpc, log, subLife, mapped>>

\* A callback that calls Set, Update, Subscribe or Unsubscribe on r.
GCall(g, c) ==
    /\ g.kind = "reenter"
    /\ g.at = "start"
    /\ rmutex = 0
    /\ Callable(c)
    /\ Critical(c, GorId(g))
    /\ received' = [received EXCEPT ![g.sub] = Append(@, g.n)]
    /\ gor' = (gor \ {g}) \cup
                 (IF Changes(c)
                  THEN {[g EXCEPT !.at = "notify", !.call = critical(c).call]}
                  ELSE {})
    /\ UNCHANGED <<wpc, mapped>>

\* Its Set or Update starts the callbacks of its snapshot and returns.
GNotify(g) ==
    /\ g.at = "notify"
    /\ gor' = (gor \ {g}) \cup Spawned(g.call)
    /\ UNCHANGED <<rvalue, rsubs, rnextID, rmutex, wpc, received, log, subLife, mapped>>

\* MapReactive: result := NewReactive(transform(source.Get()))
MapGet(p) ==
    /\ wpc[p].at = "idle"
    /\ ~mapped.made
    /\ rmutex = 0
    /\ mapped' = [made |-> TRUE, value |-> transform(rvalue), sets |-> <<>>]
    /\ wpc' = [wpc EXCEPT ![p] = [at |-> "subscribe", call |-> NoCallR]]
    /\ UNCHANGED <<rvalue, rsubs, rnextID, rmutex, gor, received, log, subLife>>

\* MapReactive: source.Subscribe(func(old, new T) { result.Set(transform(new)) })
MapSubscribe(p) ==
    /\ wpc[p].at = "subscribe"
    /\ rmutex = 0
    /\ Critical([NoCallR EXCEPT !.op = "Subscribe", !.kind = "map"], p)
    /\ wpc' = [wpc EXCEPT ![p] = IdleW]
    /\ UNCHANGED <<gor, received, mapped>>

\* The callback MapReactive subscribed runs: result.Set(transform(new)).
GMap(g) ==
    /\ g.kind = "map"
    /\ mapped' = [mapped EXCEPT !.value = transform(g.new), !.sets = Append(@, g.n)]
    /\ received' = [received EXCEPT ![g.sub] = Append(@, g.n)]
    /\ gor' = gor \ {g}
    /\ UNCHANGED <<rvalue, rsubs, rnextID, rmutex, wpc, log, subLife>>

ReactIdle == NewReactive
ReactInit == NewReactive

\* Goroutines using one Reactive, with recording and re-entering callbacks.
ReactStep ==
    \/ \E p \in Writers, c \in Calls : WCall(p, c)
    \/ \E p \in Writers : WNotify(p)
    \/ \E g \in gor : GRecord(g)
    \/ \E g \in gor : GGet(g)
    \/ \E g \in gor : \E c \in ReenterCalls(g.sub) : GCall(g, c)
    \/ \E g \in gor : GNotify(g)

\* MapReactive has returned: the result exists and its callback is subscribed.
MapMade == mapped.made /\ \A p \in Writers : wpc[p].at # "subscribe"

\* source.Set(v), called before MapReactive or after it has returned.
MapSet(p, v) ==
    /\ ~mapped.made \/ MapMade
    /\ WCall(p, [NoCallR EXCEPT !.op = "Set", !.arg = v])

\* A source Reactive, MapReactive(source, transform) and Sets of the source.
MapStep ==
    \/ \E p \in Writers : MapGet(p)
    \/ \E p \in Writers : MapSubscribe(p)
    \/ \E p \in Writers, v \in 0..MaxVal : MapSet(p, v)
    \/ \E p \in Writers : WNotify(p)
    \/ \E g \in gor : GMap(g)

\* The predicate passed to FilterReactive.
predicate(x) == x >= 2

\* FilterReactive: current := source.Get(); result := NewReactive(current)
FilterGet(p) ==
    /\ wpc[p].at = "idle"
    /\ ~mapped.made
    /\ rmutex = 0
    /\ mapped' = [made |-> TRUE, value |-> rvalue, sets |-> <<>>]
    /\ wpc' = [wpc EXCEPT ![p] = [at |-> "subscribe", call |-> NoCallR]]
    /\ UNCHANGED <<rvalue, rsubs, rnextID, rmutex, gor, received, log, subLife>>

\* FilterReactive: source.Subscribe(func(old, new T) { if predicate(new) { ... } })
FilterSubscribe(p) ==
    /\ wpc[p].at = "subscribe"
    /\ rmutex = 0
    /\ Critical([NoCallR EXCEPT !.op = "Subscribe", !.kind = "filter"], p)
    /\ wpc' = [wpc EXCEPT ![p] = IdleW]
    /\ UNCHANGED <<gor, received, mapped>>

\* The callback FilterReactive subscribed runs:
\* if predicate(new) { result.Set(new) }; sets lists the result.Set calls,
\* each of which notifies the subscribers of the result.
GFilter(g) ==
    /\ g.kind = "filter"
    /\ mapped' = IF predicate(g.new)
                 THEN [mapped EXCEPT !.value = g.new, !.sets = Append(@, g.n)]
                 ELSE mapped
    /\ received' = [received EXCEPT ![g.sub] = Append(@, g.n)]
    /\ gor' = gor \ {g}
    /\ UNCHANGED <<rvalue, rsubs, rnextID, rmutex, wpc, log, subLife>>

\* A source Reactive, FilterReactive(source, predicate) and Sets of the source.
FilterStep ==
    \/ \E p \in Writers : FilterGet(p)
    \/ \E p \in Writers : FilterSubscribe(p)
    \/ \E p \in Writers, v \in 0..MaxVal : MapSet(p, v)
    \/ \E p \in Writers : WNotify(p)
    \/ \E g \in gor : GFilter(g)

(***************************************************************************)
(* monad.SequenceTasks: the returned task runs the tasks of the slice one  *)
(* after another, looking at ctx.Done() before each.  A Task is a function *)
(* from a context to a Result; here it is the Result it returns.           *)
(***************************************************************************)
VARIABLES
    tasks,     \* the slice of tasks, each the Result it returns
    sctx,      \* ctx.Err(): Nil until the context is done
    spc,       \* where the loop is: "select", "run" or "done"
    si,        \* index of the task of the current iteration
    sseen,     \* history: ctx.Err() as each iteration's select saw it
    sinvoked,  \* history: the indices of the tasks invoked, in order
    sresults,  \* the results slice
    sout       \* the Result returned: [val, err]

seqVars == <<tasks, sctx, spc, si, sseen, sinvoked, sresults, sout>>

MaxTasks == 3

CtxErrors == {"context canceled", "context deadline exceeded"}
TaskResults == {Ok(v) : v \in Vals} \cup {Err(e) : e \in Errors}

\* The select without its ctx.Done() case.
selectDefault(e) == "default"

\* select { case <-ctx.Done(): ...; default: }
selectDone(e) == IF e # Nil THEN "done" ELSE "default"

SeqInit ==
    /\ tasks \in UNION {[1..n -> TaskResults] : n \in 0..MaxTasks}
    /\ sctx \in {Nil} \cup CtxErrors
    /\ spc = "select"
    /\ si = 1
    /\ sseen = <<>>
    /\ sinvoked = <<>>
    /\ sresults = <<>>
    /\ sout = ZeroResult

SeqIdle ==
    /\ tasks = <<>>
    /\ sctx = Nil
    /\ spc = "select"
    /\ si = 1
    /\ sseen = <<>>
    /\ sinvoked = <<>>
    /\ sresults = <<>>
    /\ sout = ZeroResult

\* The context is cancelled or its deadline passes while the loop runs.
SeqCancel(e) ==
    /\ spc # "done"
    /\ sctx = Nil
    /\ sctx' = e
    /\ UNCHANGED <<tasks, spc, si, sseen, sinvoked, sresults, sout>>

\* The select at the head of an iteration.
SeqSelect ==
    /\ spc = "select"
    /\ si <= Len(tasks)
    /\ sseen' = Append(sseen, sctx)
    /\ IF selectDone(sctx) = "done"
       THEN spc' = "done" /\ sout' = [val |-> <<>>, err |-> sctx]
       ELSE spc' = "run" /\ UNCHANGED sout
    /\ UNCHANGED <<tasks, sctx, si, sinvoked, sresults>>

\* result := task(ctx) and what the loop does with it.
SeqRun ==
    /\ spc = "run"
    /\ sinvoked' = Append(sinvoked, si)
    /\ IF ~IsOk(tasks[si])
       THEN /\ spc' = "done"
            /\ sout' = [val |-> <<>>, err |-> tasks[si].err]
            /\ UNCHANGED <<si, sresults>>
       ELSE /\ sresults' = Append(sresults, tasks[si].val)
            /\ si' = si + 1
            /\ spc' = "select"
            /\ UNCHANGED sout
    /\ UNCHANGED <<tasks, sctx, sseen>>

\* return Ok(results)
SeqReturn ==
    /\ spc = "select"
    /\ si > Len(tasks)
    /\ spc' = "done"
    /\ sout' = [val |-> sresults, err |-> Nil]
    /\ UNCHANGED <<tasks, sctx, si, sseen, sinvoked, sresults>>

SeqStep ==
    \/ \E e \in CtxErrors : SeqCancel(e)
    \/ SeqSelect
    \/ SeqRun
    \/ SeqReturn

(***************************************************************************)
(* monad.RaceFutures, monad.FirstCompleted and monad.RaceTasks: one        *)
(* goroutine per input waits for it and hands its result on.  An input is  *)
(* the Result it completes with, or never completes.                       *)
(***************************************************************************)
VARIABLES
    rmode,       \* which of the three functions is called
    rin,         \* the inputs: [completes, r]
    rcompleted,  \* history: the inputs that have completed, in that order
    rwatch,      \* per input, its goroutine: "await" or "exited"
    rfut,        \* the Future returned (RaceTasks: the Result returned)
    rctx,        \* RaceTasks: ctx.Err(), Nil until the context is done
    rchan,       \* RaceTasks: the buffered channel done
    rstored      \* history: the inputs whose goroutine handed a result on

raceVars == <<rmode, rin, rcompleted, rwatch, rfut, rctx, rchan, rstored>>

MaxFutures == 2

RaceModes == {"RaceFutures", "FirstCompleted", "RaceTasks"}
Inputs == [completes : BOOLEAN, r : TaskResults]
NoFuture == [made |-> FALSE, done |-> FALSE, result |-> ZeroResult]
IsCompleted(i) == \E k \in 1..Len(rcompleted) : rcompleted[k] = i

\* Every result is handed on, failures too.
forwardAll(mode, r) == TRUE

\* RaceFutures and RaceTasks hand on a result only `if result.IsOk()`,
\* FirstCompleted hands on every result.
forward(mode, r) == mode = "FirstCompleted" \/ IsOk(r)

RaceInit ==
    /\ rmode \in RaceModes
    /\ rin \in UNION {[1..n -> Inputs] : n \in 0..MaxFutures}
    /\ rcompleted = <<>>
    /\ rwatch = [i \in 1..Len(rin) |-> "await"]
    /\ rfut = NoFuture
    /\ rctx = Nil
    /\ rchan = <<>>
    /\ rstored = <<>>

RaceIdle ==
    /\ rmode = "RaceFutures"
    /\ rin = <<>>
    /\ rcompleted = <<>>
    /\ rwatch = <<>>
    /\ rfut = NoFuture
    /\ rctx = Nil
    /\ rchan = <<>>
    /\ rstored = <<>>

\* The call: NewFuture, the empty-list case, and the goroutines started.
RaceCall ==
    /\ ~rfut.made
    /\ rfut' = IF rin = <<>>
               THEN [made |-> TRUE, done |-> TRUE, result |-> Err("context canceled")]
               ELSE [made |-> TRUE, done |-> FALSE, result |-> ZeroResult]
    /\ UNCHANGED <<rmode, rin, rcompleted, rwatch, rctx, rchan, rstored>>

\* Input i completes; a task of RaceTasks is run by the call.
InputCompletes(i) ==
    /\ rin[i].completes
    /\ ~IsCompleted(i)
    /\ rmode = "RaceTasks" => rfut.made
    /\ rcompleted' = Append(rcompleted, i)
    /\ UNCHANGED <<rmode, rin, rwatch, rfut, rctx, rchan, rstored>>

\* The goroutine of input i of RaceFutures or FirstCompleted:
\* result := f.Await(), then resultFuture.Complete(val) or complete(result).
Watch(i) ==
    /\ rmode # "RaceTasks"
    /\ rfut.made
    /\ rwatch[i] = "await"
    /\ IsCompleted(i)
    /\ rwatch' = [rwatch EXCEPT ![i] = "exited"]
    /\ IF forward(rmode, rin[i].r)
       THEN LET a == IF rmode = "RaceFutures" THEN Ok(rin[i].r.val) ELSE rin[i].r
                c == complete(rfut.done, rfut.result, a)
            IN /\ rfut' = [rfut EXCEPT !.done = c.done, !.result = c.result]
               /\ rstored' = Append(rstored, i)
       ELSE UNCHANGED <<rfut, rstored>>
    /\ UNCHANGED <<rmode, rin, rcompleted, rctx, rchan>>

\* The goroutine of task i of RaceTasks:
\* result := future.AwaitWithContext(ctx); if result.IsOk() { done <- result }
TaskWatch(i) ==
    /\ rmode = "RaceTasks"
    /\ rfut.made
    /\ rwatch[i] = "await"
    /\ \E s \in select(IF IsCompleted(i) THEN <<rin[i].r>> ELSE <<>>, rctx) :
          IF forward(rmode, s.r)
          THEN rchan' = Append(rchan, s.r) /\ rstored' = Append(rstored, i)
          ELSE UNCHANGED <<rchan, rstored>>
    /\ rwatch' = [rwatch EXCEPT ![i] = "exited"]
    /\ UNCHANGED <<rmode, rin, rcompleted, rfut, rctx>>

\* RaceTasks: select { case result := <-done: ...; case <-ctx.Done(): ... }
TaskSelect ==
    /\ rmode = "RaceTasks"
    /\ rfut.made
    /\ ~rfut.done
    /\ \E s \in select(rchan, rctx) :
          /\ rfut' = [rfut EXCEPT !.done = TRUE, !.result = s.r]
          /\ rchan' = IF s.recv THEN Tail(rchan) ELSE rchan
    /\ UNCHANGED <<rmode, rin, rcompleted, rwatch, rctx, rstored>>

\* The context of RaceTasks is cancelled or its deadline passes.
RaceCancel(e) ==
    /\ rmode = "RaceTasks"
    /\ rctx = Nil
    /\ rctx' = e
    /\ UNCHANGED <<rmode, rin, rcompleted, rwatch, rfut, rchan, rstored>>

RaceStep ==
    \/ RaceCall
    \/ \E i \in 1..Len(rin) : InputCompletes(i)
    \/ \E i \in 1..Len(rin) : Watch(i)
    \/ \E i \in 1..Len(rin) : TaskWatch(i)
    \/ TaskSelect
    \/ \E e \in CtxErrors : RaceCancel(e)

(***************************************************************************)
(* parser.ParseDir, the walk of one parsed file: ast.Inspect visits every  *)
(* node of the file in source order, the bodies of functions included, and *)
(* the callback appends a StructInfo for each TypeSpec whose type is a     *)
(* struct type.                                                            *)
(***************************************************************************)
VARIABLES
    afile,     \* the file: its top-level declarations
    anext,     \* index of the node ast.Inspect visits next
    astructs   \* the structs slice built so far

inspVars == <<afile, anext, astructs>>

MaxGroups == 2

\* A field of the struct's field list: `a, b T`, `a T`, or an embedded T.
FieldGroups == [names : {<<>>, <<"a">>, <<"a", "b">>}, type : {"T"}]
FieldLists == UNION {[1..n -> FieldGroups] : n \in 0..MaxGroups}
\* A type declaration: a struct type with its fields, or some other type.
TypeDecls == [isStruct : {TRUE}, fields : FieldLists]
                 \cup [isStruct : {FALSE}, fields : {<<>>}]
\* A top-level declaration: a type, or a function with the type
\* declarations of its body.
TopDecls == [kind : {"type"}, type : TypeDecls, locals : {<<>>}]
                \cup [kind : {"func"}, type : {[isStruct |-> FALSE, fields |-> <<>>]},
                      locals : UNION {[1..n -> TypeDecls] : n \in 0..1}]

\* The TypeSpec nodes of declaration number i in the order ast.Inspect
\* reaches them: [at, local, type], at = <<i>> or <<i, j>>.
TypeSpecsOf(i, d) ==
    IF d.kind = "type" THEN <<[at |-> <<i>>, local |-> FALSE, type |-> d.type]>>
    ELSE [j \in 1..Len(d.locals) |-> [at |-> <<i, j>>, local |-> TRUE, type |-> d.locals[j]]]

RECURSIVE TypeSpecNodes(_, _)
TypeSpecNodes(f, i) ==
    IF i > Len(f) THEN <<>> ELSE TypeSpecsOf(i, f[i]) \o TypeSpecNodes(f, i + 1)

\* `for _, f := range st.Fields.List`: one FieldInfo per name, one with the
\* empty name for a field without names.
RECURSIVE fieldInfos(_)
fieldInfos(fl) ==
    IF fl = <<>> THEN <<>>
    ELSE (IF fl[1].names = <<>> THEN <<[name |-> "", type |-> fl[1].type]>>
          ELSE [k \in 1..Len(fl[1].names) |-> [name |-> fl[1].names[k], type |-> fl[1].type]])
         \o fieldInfos(Tail(fl))

\* case *ast.TypeSpec: if st, ok := x.Type.(*ast.StructType); ok { ... }
inspect(n) ==
    IF n.type.isStruct
    THEN <<[at |-> n.at, fields |-> fieldInfos(n.type.fields)]>>
    ELSE <<>>

InspInit ==
    /\ afile \in UNION {[1..n -> TopDecls] : n \in 0..MaxDecls}
    /\ anext = 1
    /\ astructs = <<>>

InspIdle ==
    /\ afile = <<>>
    /\ anext = 1
    /\ astructs = <<>>

\* ast.Inspect calls the callback on the next TypeSpec of the file.
InspectNode ==
    /\ anext <= Len(TypeSpecNodes(afile, 1))
    /\ astructs' = astructs \o inspect(TypeSpecNodes(afile, 1)[anext])
    /\ anext' = anext + 1
    /\ UNCHANGED afile

InspStep == InspectNode

(***************************************************************************)
(* Reactive.Set and Reactive.Update statement by statement, called by      *)
(* several goroutines at once: Lock, oldValue := r.value, the write,       *)
(* Unlock, and the dispatch of (oldValue, newValue) to the callbacks.      *)
(***************************************************************************)
VARIABLES
    uvalue,   \* r.value
    umutex,   \* the goroutines inside r.mutex.Lock() ... Unlock()
    upc,      \* per goroutine: [at, op, arg, old, new, n]
    ulog,     \* history: the writes in order: [by, op, seen, before, new]
    udisp     \* history: the (old, new) pairs dispatched, by change number

updVars == <<uvalue, umutex, upc, ulog, udisp>>

NumUpdaters == 2
MaxWrites == 3

Updaters == 1..NumUpdaters
UIdle == [at |-> "idle", op |-> "none", arg |-> 0, old |-> 0, new |-> 0, n |-> 0]

\* A lock that never makes its caller wait.
acquireAlways(holders) == TRUE

\* r.mutex.Lock() returns only while no goroutine holds the mutex.
acquire(holders) == holders = {}

\* The pair built from r.value read after the write.
pairAfterWrite(seen, new) == [old |-> new, new |-> new]

\* (oldValue, newValue): oldValue was read before the write.
pair(seen, new) == [old |-> seen, new |-> new]

UpdInit ==
    /\ uvalue = 0
    /\ umutex = {}
    /\ upc = [p \in Updaters |-> UIdle]
    /\ ulog = <<>>
    /\ udisp = <<>>

UpdIdle == UpdInit

\* p calls Set(v) or Update(fn): r.mutex.Lock()
ULock(p, o, v) ==
    /\ upc[p].at = "idle"
    /\ Len(ulog) + Cardinality({q \in Updaters : upc[q].at \in {"locked", "read"}}) < MaxWrites
    /\ acquire(umutex)
    /\ umutex' = umutex \cup {p}
    /\ upc' = [upc EXCEPT ![p] = [UIdle EXCEPT !.at = "locked", !.op = o, !.arg = v]]
    /\ UNCHANGED <<uvalue, ulog, udisp>>

\* oldValue := r.value
URead(p) ==
    /\ upc[p].at = "locked"
    /\ upc' = [upc EXCEPT ![p].at = "read", ![p].old = uvalue]
    /\ UNCHANGED <<uvalue, umutex, ulog, udisp>>

\* r.value = newValue, with newValue the argument of Set or fn(r.value) as
\* Update read it.
UWrite(p) ==
    /\ upc[p].at = "read"
    /\ LET new == IF upc[p].op = "Update" THEN UpdateFn(upc[p].old) ELSE upc[p].arg
       IN /\ uvalue' = new
          /\ ulog' = Append(ulog, [by |-> p, op |-> upc[p].op, seen |-> upc[p].old,
                                   before |-> uvalue, new |-> new])
          /\ upc' = [upc EXCEPT ![p].at = "written", ![p].new = new, ![p].n = Len(ulog) + 1]
    /\ UNCHANGED <<umutex, udisp>>

\* r.mutex.Unlock()
UUnlock(p) ==
    /\ upc[p].at = "written"
    /\ umutex' = umutex \ {p}
    /\ upc' = [upc EXCEPT ![p].at = "notify"]
    /\ UNCHANGED <<uvalue, ulog, udisp>>

\* for _, callback := range subscribers { go callback(oldValue, newValue) }
UNotify(p) ==
    /\ upc[p].at = "notify"
    /\ udisp' = Append(udisp, [n |-> upc[p].n] @@ pair(upc[p].old, upc[p].new))
    /\ upc' = [upc EXCEPT ![p] = UIdle]
    /\ UNCHANGED <<uvalue, umutex, ulog>>

UpdStep ==
    \/ \E p \in Updaters : ULock(p, "Update", 0)
    \/ \E p \in Updaters, v \in SetVals : ULock(p, "Set", v)
    \/ \E p \in Updaters : URead(p)
    \/ \E p \in Updaters : UWrite(p)
    \/ \E p \in Updaters : UUnlock(p)
    \/ \E p \in Updaters : UNotify(p)

(***************************************************************************)
(* monad.Result seen through its constructors and combinators: Ok, Err,    *)
(* IsOk, Map, AndThen, and the conversions FromResult and ToResult.  The   *)
(* combinators report the arguments they called f with.                    *)
(***************************************************************************)
VARIABLES
    built,    \* how the first Result was constructed: [ctor, arg]
    operand,  \* the Result at hand: [made, r]
    applied1, \* the last combinator applied: [op, fn, in, out, called, either]
    nops      \* number of combinators applied so far

resVars == <<built, operand, applied1, nops>>

MaxOps == 2

\* The functions handed to Map and AndThen.
MapFns == {"succ", "zero"}
MapFn(g, x) == IF g = "succ" THEN (x + 1) % (MaxVal + 1) ELSE 0
AndThenFns == {"keep", "reject"}
AndThenFn(g, x) == IF g = "keep" THEN Ok(x) ELSE Err("boom")

\* Left(left) and Right(right) of Either[error, R].
Left(l) == [left |-> l, right |-> Zero, isRight |-> FALSE]
Right(r) == [left |-> Nil, right |-> r, isRight |-> TRUE]
NoEither == [left |-> Nil, right |-> Zero, isRight |-> FALSE]

\* Map applying f whatever the error.
MapUnchecked(r, g) == [out |-> Ok(MapFn(g, r.val)), called |-> <<r.val>>]

\* Map(r, f)
Map(r, g) ==
    IF r.err # Nil THEN [out |-> Err(r.err), called |-> <<>>]
    ELSE [out |-> Ok(MapFn(g, r.val)), called |-> <<r.val>>]

\* AndThen(r, f)
AndThen(r, g) ==
    IF r.err # Nil THEN [out |-> Err(r.err), called |-> <<>>]
    ELSE [out |-> AndThenFn(g, r.val), called |-> <<r.val>>]

\* FromResult(r)
FromResult(r) == IF r.err # Nil THEN Left(r.err) ELSE Right(r.val)

\* ToResult(e)
ToResult(e) == IF e.isRight THEN Ok(e.right) ELSE Err(e.left)

NoApp == [op |-> "none", fn |-> "none", in |-> ZeroResult, out |-> ZeroResult,
          called |-> <<>>, either |-> NoEither]

ResInit ==
    /\ built \in [ctor : {"Ok"}, arg : Vals] \cup [ctor : {"Err"}, arg : Errors \cup {Nil}]
    /\ operand = [made |-> FALSE, r |-> ZeroResult]
    /\ applied1 = NoApp
    /\ nops = 0

ResIdle ==
    /\ built = [ctor |-> "Ok", arg |-> 0]
    /\ operand = [made |-> FALSE, r |-> ZeroResult]
    /\ applied1 = NoApp
    /\ nops = 0

\* Ok(v) or Err(e)
Construct ==
    /\ ~operand.made
    /\ operand' = [made |-> TRUE,
                   r |-> IF built.ctor = "Ok" THEN Ok(built.arg) ELSE Err(built.arg)]
    /\ UNCHANGED <<built, applied1, nops>>

\* Map(r, f); the result is the next operand.
ApplyMap(g) ==
    /\ operand.made /\ nops < MaxOps
    /\ LET m == Map(operand.r, g)
       IN /\ applied1' = [NoApp EXCEPT !.op = "Map", !.fn = g, !.in = operand.r,
                                       !.out = m.out, !.called = m.called]
          /\ operand' = [operand EXCEPT !.r = m.out]
    /\ nops' = nops + 1
    /\ UNCHANGED built

\* AndThen(r, f); the result is the next operand.
ApplyAndThen(g) ==
    /\ operand.made /\ nops < MaxOps
    /\ LET m == AndThen(operand.r, g)
       IN /\ applied1' = [NoApp EXCEPT !.op = "AndThen", !.fn = g, !.in = operand.r,
                                       !.out = m.out, !.called = m.called]
          /\ operand' = [operand EXCEPT !.r = m.out]
    /\ nops' = nops + 1
    /\ UNCHANGED built

\* ToResult(FromResult(r)); the result is the next operand.
Convert ==
    /\ operand.made /\ nops < MaxOps
    /\ LET e == FromResult(operand.r)
       IN /\ applied1' = [NoApp EXCEPT !.op = "FromResult", !.in = operand.r,
                                       !.out = ToResult(e), !.either = e]
          /\ operand' = [operand EXCEPT !.r = ToResult(e)]
    /\ nops' = nops + 1
    /\ UNCHANGED built

ResStep ==
    \/ Construct
    \/ \E g \in MapFns : ApplyMap(g)
    \/ \E g \in AndThenFns : ApplyAndThen(g)
    \/ Convert

vars == <<mu, done, result, waitq, pc, op, arg, ret, chan, ctxErr, firstArg,
          cancelFirst, selDone,
          sourcePath, fs, sg,
          variant, target, matched, mresult, ncalls, invoked, defaulted, final,
          lastPats, lastHits, lastGuard, firstMatch,
          withHandler, handler, failing, input, stage, cur, pend, calls, hcalls, out,
          fn, text, applied, env, passed,
          opts, config, nextOpt, returned,
          st, rec,
          decl, directive,
          globOk, files, nextFile, structs, funcs, scan,
          rvalue, rsubs, rnextID, rmutex, wpc, gor, received, log, subLife, mapped,
          tasks, sctx, spc, si, sseen, sinvoked, sresults, sout,
          rmode, rin, rcompleted, rwatch, rfut, rctx, rchan, rstored,
          afile, anext, astructs,
          uvalue, umutex, upc, ulog, udisp,
          built, operand, applied1, nops>>

Init == NewFuture /\ GenIdle /\ MatchIdle /\ PipeIdle /\ CurryIdle /\ OptIdle /\ RecIdle /\ DirIdle /\ ParseIdle /\ ReactIdle /\ SeqIdle /\ RaceIdle /\ InspIdle /\ UpdIdle /\ ResIdle

Next == FutureCore /\






        UNCHANGED <<genVars, matchVars, pipeVars, curryVars, optVars, recVars, dirVars, parseVars, reactVars, seqVars, raceVars, inspVars, updVars, resVars>>

\* The Future with Complete, CompleteWithError, Poll and Await.
Spec == Init /\ [][Next]_vars

\* The scheduler runs every goroutine that can take a step.
Scheduled == (\E p \in Callers : Step(p)) /\






        UNCHANGED <<genVars, matchVars, pipeVars, curryVars, optVars, recVars, dirVars, parseVars, reactVars, seqVars, raceVars, inspVars, updVars, resVars>>

FairSpec == Spec /\ WF_vars(Scheduled)

\* The Future with AwaitWithContext as well.
CtxNext == FutureStep /\






        UNCHANGED <<genVars, matchVars, pipeVars, curryVars, optVars, recVars, dirVars, parseVars, reactVars, seqVars, raceVars, inspVars, updVars, resVars>>

CtxSpec == Init /\ [][CtxNext]_vars

\* shouldGenerate over every source path and every state of the two files.
GenNext == ShouldGenerate /\






        UNCHANGED <<futVars, matchVars, pipeVars, curryVars, optVars, recVars, dirVars, parseVars, reactVars, seqVars, raceVars, inspVars, updVars, resVars>>

GenStart == NewFuture /\ GenInit /\ MatchIdle /\ PipeIdle /\ CurryIdle /\ OptIdle /\ RecIdle /\ DirIdle /\ ParseIdle /\ ReactIdle /\ SeqIdle /\ RaceIdle /\ InspIdle /\ UpdIdle /\ ResIdle

GenSpec == GenStart /\ [][GenNext]_vars

\* A chain of When/WhenGuard calls on one matcher, closed by Default.
MatchNext == MatchStep /\






        UNCHANGED <<futVars, genVars, pipeVars, curryVars, optVars, recVars, dirVars, parseVars, reactVars, seqVars, raceVars, inspVars, updVars, resVars>>

MatchStart == NewFuture /\ GenIdle /\ MatchInit /\ PipeIdle /\ CurryIdle /\ OptIdle /\ RecIdle /\ DirIdle /\ ParseIdle /\ ReactIdle /\ SeqIdle /\ RaceIdle /\ InspIdle /\ UpdIdle /\ ResIdle

MatchSpec == MatchStart /\ [][MatchNext]_vars

\* One call of a composed pipeline function.
PipeNext == PipeStep /\






        UNCHANGED <<futVars, genVars, matchVars, curryVars, optVars, recVars, dirVars, parseVars, reactVars, seqVars, raceVars, inspVars, updVars, resVars>>

PipeStart == NewFuture /\ GenIdle /\ MatchIdle /\ PipeInit /\ CurryIdle /\ OptIdle /\ RecIdle /\ DirIdle /\ ParseIdle /\ ReactIdle /\ SeqIdle /\ RaceIdle /\ InspIdle /\ UpdIdle /\ ResIdle

PipeSpec == PipeStart /\ [][PipeNext]_vars

\* A function declaration is curried and the generated chain is applied.
CurryNext == CurryStep /\






        UNCHANGED <<futVars, genVars, matchVars, pipeVars, optVars, recVars, dirVars, parseVars, reactVars, seqVars, raceVars, inspVars, updVars, resVars>>

CurryStart == NewFuture /\ GenIdle /\ MatchIdle /\ PipeIdle /\ CurryInit /\ OptIdle /\ RecIdle /\ DirIdle /\ ParseIdle /\ ReactIdle /\ SeqIdle /\ RaceIdle /\ InspIdle /\ UpdIdle /\ ResIdle

CurrySpec == CurryStart /\ [][CurryNext]_vars

\* NewConfigWithOptions applied to a list of options.
OptNext == OptStep /\






        UNCHANGED <<genVars, matchVars, pipeVars, curryVars, futVars, recVars, dirVars, parseVars, reactVars, seqVars, raceVars, inspVars, updVars, resVars>>

OptStart == NewFuture /\ GenIdle /\ MatchIdle /\ PipeIdle /\ CurryIdle /\ OptInit /\ RecIdle /\ DirIdle /\ ParseIdle /\ ReactIdle /\ SeqIdle /\ RaceIdle /\ InspIdle /\ UpdIdle /\ ResIdle

OptSpec == OptStart /\ [][OptNext]_vars

\* Record synthesis for one struct declaration.
RecNext == GenerateRecord /\






        UNCHANGED <<genVars, matchVars, pipeVars, curryVars, optVars, futVars, dirVars, parseVars, reactVars, seqVars, raceVars, inspVars, updVars, resVars>>

RecStart == NewFuture /\ GenIdle /\ MatchIdle /\ PipeIdle /\ CurryIdle /\ OptIdle /\ RecInit /\ DirIdle /\ ParseIdle /\ ReactIdle /\ SeqIdle /\ RaceIdle /\ InspIdle /\ UpdIdle /\ ResIdle

RecSpec == RecStart /\ [][RecNext]_vars

\* The directive ParseDir records for one struct type.
DirNext == ScanStruct /\






        UNCHANGED <<genVars, matchVars, pipeVars, curryVars, optVars, recVars, futVars, parseVars, reactVars, seqVars, raceVars, inspVars, updVars, resVars>>

DirStart == NewFuture /\ GenIdle /\ MatchIdle /\ PipeIdle /\ CurryIdle /\ OptIdle /\ RecIdle /\ DirInit /\ ParseIdle /\ ReactIdle /\ SeqIdle /\ RaceIdle /\ InspIdle /\ UpdIdle /\ ResIdle

DirSpec == DirStart /\ [][DirNext]_vars

\* ParseDir over the files of one directory.
ParseNext == ParseStep /\






        UNCHANGED <<genVars, matchVars, pipeVars, curryVars, optVars, recVars, dirVars, futVars, reactVars, seqVars, raceVars, inspVars, updVars, resVars>>

ParseStart == NewFuture /\ GenIdle /\ MatchIdle /\ PipeIdle /\ CurryIdle /\ OptIdle /\ RecIdle /\ DirIdle /\ ParseInit /\ ReactIdle /\ SeqIdle /\ RaceIdle /\ InspIdle /\ UpdIdle /\ ResIdle

ParseSpec == ParseStart /\ [][ParseNext]_vars

\* Goroutines calling Set, Update, Subscribe and Unsubscribe on one Reactive.
ReactNext == ReactStep /\





        UNCHANGED <<genVars, matchVars, pipeVars, curryVars, optVars, recVars, dirVars, parseVars, futVars, seqVars, raceVars, inspVars, updVars, resVars>>

ReactStart == NewFuture /\ GenIdle /\ MatchIdle /\ PipeIdle /\ CurryIdle /\ OptIdle /\ RecIdle /\ DirIdle /\ ParseIdle /\ ReactInit /\ SeqIdle /\ RaceIdle /\ InspIdle /\ UpdIdle /\ ResIdle

ReactSpec == ReactStart /\ [][ReactNext]_vars

MapNext == MapStep /\





        UNCHANGED <<genVars, matchVars, pipeVars, curryVars, optVars, recVars, dirVars, parseVars, futVars, seqVars, raceVars, inspVars, updVars, resVars>>

MapStart == NewFuture /\ GenIdle /\ MatchIdle /\ PipeIdle /\ CurryIdle /\ OptIdle /\ RecIdle /\ DirIdle /\ ParseIdle /\ ReactInit /\ SeqIdle /\ RaceIdle /\ InspIdle /\ UpdIdle /\ ResIdle

MapSpec == MapStart /\ [][MapNext]_vars

FilterNext == FilterStep /\





        UNCHANGED <<genVars, matchVars, pipeVars, curryVars, optVars, recVars, dirVars, parseVars, futVars, seqVars, raceVars, inspVars, updVars, resVars>>

FilterStart == NewFuture /\ GenIdle /\ MatchIdle /\ PipeIdle /\ CurryIdle /\ OptIdle /\ RecIdle /\ DirIdle /\ ParseIdle /\ ReactInit /\ SeqIdle /\ RaceIdle /\ InspIdle /\ UpdIdle /\ ResIdle

FilterSpec == FilterStart /\ [][FilterNext]_vars

\* SequenceTasks over a slice of tasks, with a context that may become done.
SeqNext == SeqStep /\




        UNCHANGED <<genVars, matchVars, pipeVars, curryVars, optVars, recVars, dirVars, parseVars, reactVars, futVars, raceVars, inspVars, updVars, resVars>>

SeqStart == NewFuture /\ GenIdle /\ MatchIdle /\ PipeIdle /\ CurryIdle /\ OptIdle /\ RecIdle /\ DirIdle /\ ParseIdle /\ ReactIdle /\ SeqInit /\ RaceIdle /\ InspIdle /\ UpdIdle /\ ResIdle

SeqSpec == SeqStart /\ [][SeqNext]_vars

\* RaceFutures, FirstCompleted and RaceTasks over inputs completing in any order.
RaceNext == RaceStep /\



        UNCHANGED <<genVars, matchVars, pipeVars, curryVars, optVars, recVars, dirVars, parseVars, reactVars, seqVars, futVars, inspVars, updVars, resVars>>

RaceStart == NewFuture /\ GenIdle /\ MatchIdle /\ PipeIdle /\ CurryIdle /\ OptIdle /\ RecIdle /\ DirIdle /\ ParseIdle /\ ReactIdle /\ SeqIdle /\ RaceInit /\ InspIdle /\ UpdIdle /\ ResIdle

RaceSpec == RaceStart /\ [][RaceNext]_vars

\* ast.Inspect over one file with top-level and local type declarations.
InspNext == InspStep /\


        UNCHANGED <<genVars, matchVars, pipeVars, curryVars, optVars, recVars, dirVars, parseVars, reactVars, seqVars, raceVars, futVars, updVars, resVars>>

InspStart == NewFuture /\ GenIdle /\ MatchIdle /\ PipeIdle /\ CurryIdle /\ OptIdle /\ RecIdle /\ DirIdle /\ ParseIdle /\ ReactIdle /\ SeqIdle /\ RaceIdle /\ InspInit /\ UpdIdle /\ ResIdle

InspSpec == InspStart /\ [][InspNext]_vars

\* Goroutines calling Set and Update on one Reactive at the same time.
UpdNext == UpdStep /\

        UNCHANGED <<genVars, matchVars, pipeVars, curryVars, optVars, recVars, dirVars, parseVars, reactVars, seqVars, raceVars, inspVars, futVars, resVars>>

UpdStart == NewFuture /\ GenIdle /\ MatchIdle /\ PipeIdle /\ CurryIdle /\ OptIdle /\ RecIdle /\ DirIdle /\ ParseIdle /\ ReactIdle /\ SeqIdle /\ RaceIdle /\ InspIdle /\ UpdInit /\ ResIdle

UpdSpec == UpdStart /\ [][UpdNext]_vars

\* Results built by Ok and Err and passed through Map, AndThen and FromResult.
ResNext == ResStep /\
        UNCHANGED <<genVars, matchVars, pipeVars, curryVars, optVars, recVars, dirVars, parseVars, reactVars, seqVars, raceVars, inspVars, updVars, futVars>>

ResStart == NewFuture /\ GenIdle /\ MatchIdle /\ PipeIdle /\ CurryIdle /\ OptIdle /\ RecIdle /\ DirIdle /\ ParseIdle /\ ReactIdle /\ SeqIdle /\ RaceIdle /\ InspIdle /\ UpdIdle /\ ResInit

ResSpec == ResStart /\ [][ResNext]_vars

(***************************************************************************)
(* Claims about the Future.                                                *)
(***************************************************************************)
Returned(p, o) == pc[p] = "returned" /\ op[p] = o

\* What Poll and Await callers and the helpers' Await have observed so far.
Observed == {ret[p].r : p \in {q \in Procs : ret[q].avail /\ op[q] # "AwaitWithContext"}}

(* C1: the stored result is the one passed by the first complete call that *)
(* acquired the lock; once done, no later completion attempt changes done  *)
(* or result, and every Poll/Await that finds the Future done returns that *)
(* first result.                                                           *)
C1_FirstCompletionWins ==
    /\ [](done => (firstArg.set /\ result = firstArg.r))
    /\ [](Observed \subseteq {firstArg.r})
    /\ [][done => (done' /\ result' = result)]_vars

\* C1 witness: a second completion attempt has run its body after the first.
C1_Witness ==
    \E p, q \in Callers :
        /\ p # q
        /\ Returned(p, "complete") /\ Returned(q, "complete")
        /\ arg[p] # arg[q]
        /\ \E o \in Callers : Returned(o, "Poll") /\ ret[o].avail

(* C2: Await never returns while the Future is not done, and once the      *)
(* Future is completed every goroutine parked in Await returns, with the   *)
(* stored result.                                                          *)
C2_AwaitWakesAll ==
    /\ [](\A p \in Callers : Returned(p, "Await") => (done /\ ret[p].r = result))
    /\ \A p \in Callers :
          (done /\ pc[p] = "a_parked" /\ op[p] = "Await")
              ~> (Returned(p, "Await") /\ ret[p].r = result)

\* C2 witness: two goroutines parked in Await have both returned.
C2_Witness ==
    \E p, q \in Callers :
        /\ p # q
        /\ Returned(p, "Await") /\ Returned(q, "Await")
        /\ firstArg.set /\ ret[p].r = firstArg.r /\ ret[q].r = firstArg.r
        /\ \E c \in Callers : Returned(c, "complete")

(* C3 as stated: AwaitWithContext returns Err(ctx.Err()) whenever ctx is   *)
(* cancelled or expires before the Future completes.                       *)
C3_Original ==
    \A p \in Callers :
        (Returned(p, "AwaitWithContext") /\ cancelFirst) => ret[p].r = Err(ctxErr)

(* C3 amended: AwaitWithContext returns either the Future's result (the    *)
(* Future being done) or Err(ctx.Err()) (ctx being cancelled or expired),  *)
(* never anything else; it returns Err(ctx.Err()) whenever the Future is   *)
(* still not done when its select decides, and the Future's result         *)
(* whenever ctx is never cancelled.                                        *)
C3_AwaitWithContext ==
    \A p \in Callers :
        Returned(p, "AwaitWithContext") =>
            /\ \/ done /\ ret[p].r = result
               \/ ctxErr # Nil /\ ret[p].r = Err(ctxErr)
            /\ ~selDone[p] => (ctxErr # Nil /\ ret[p].r = Err(ctxErr))
            /\ ctxErr = Nil => (done /\ ret[p].r = result)

\* C3 witness: a call returned the context's error while the Future is not
\* done, and another returned the Future's result.
C3_Witness ==
    \E p, q \in Callers :
        /\ Returned(p, "AwaitWithContext") /\ ~selDone[p]
        /\ ret[p].r = Err(ctxErr)
        /\ Returned(q, "AwaitWithContext") /\ ret[q].r = result
        /\ IsOk(result) /\ done

(***************************************************************************)
(* Claims about the generator's staleness test.                            *)
(***************************************************************************)
BothStatOk ==
    /\ Stat(sourcePath).kind = "file"
    /\ Stat(OutFile).kind = "file"

(* C4: shouldGenerate answers generate=false exactly when the source and   *)
(* the generated file can both be stat'ed and the generated file's         *)
(* modification time is not earlier than the source's (equal times skip);  *)
(* in every other case it answers generate=true.                           *)
C4_ShouldGenerate ==
    sg.called =>
        (sg.generate = FALSE
            <=> (BothStatOk /\ Stat(OutFile).mtime >= Stat(sourcePath).mtime))

\* C4 witness: equal timestamps, and generation is skipped.
C4_Witness ==
    /\ sg.called
    /\ BothStatOk
    /\ Stat(OutFile).mtime = Stat(sourcePath).mtime
    /\ sg.generate = FALSE
(***************************************************************************)
(* Claims about the generated matcher and Option.Match.                    *)
(***************************************************************************)
(* C5: over any sequence of When/WhenGuard calls at most one clause's      *)
(* action is invoked, that of the first clause in call order whose         *)
(* patterns all match the target and whose guard holds; once matched the   *)
(* matcher stays matched and later calls change nothing and invoke         *)
(* nothing.                                                                *)
C5_FirstMatchWins ==
    /\ [](invoked = IF firstMatch = 0 THEN <<>> ELSE <<firstMatch>>)
    /\ [](matched <=> firstMatch # 0)
    /\ [][matched => (matched' /\ invoked' = invoked /\ mresult' = mresult)]_vars

\* C5 witness: the first clause failed, the second matched and ran, and a
\* third clause whose patterns also match was passed through.
C5_Witness ==
    /\ ncalls = 3
    /\ firstMatch = 2
    /\ invoked = <<2>>
    /\ AllMatch(lastPats, target)

(* C6: Default invokes its action exactly when none of the preceding       *)
(* When/WhenGuard clauses matched; if one matched, Default invokes nothing *)
(* and the return-value variant yields the matched clause's value instead  *)
(* of the default.                                                         *)
C6_Default ==
    defaulted # "no" =>
        /\ (defaulted = "invoked") <=> (firstMatch = 0)
        /\ variant = "return" =>
              final = IF firstMatch = 0 THEN DefaultValue ELSE firstMatch

\* C6 witness: a return-value chain in which the second clause matched.
C6_Witness ==
    /\ variant = "return"
    /\ defaulted = "skipped"
    /\ firstMatch = 2
    /\ final = 2

RECURSIVE Chain(_)
Chain(k) == IF k = 0 THEN input ELSE StageValue(k, Chain(k - 1))

\* The first failing stage, 0 when no stage fails.
FirstFailing == IF failing = {} THEN 0
                ELSE CHOOSE i \in failing : \A j \in failing : i <= j

\* The stages are invoked in index order, each on the previous stage's value,
\* and none after a failed one.
InOrder ==
    /\ \A k \in 1..Len(calls) : calls[k] = <<k, Chain(k - 1)>>
    /\ \A k \in 1..(Len(calls) - 1) : k \notin failing

(* C8: the composed function invokes the stages in index order, each on    *)
(* the previous stage's success value; when stage i is the first to fail   *)
(* no later stage is invoked and the result is a failure carrying stage    *)
(* i's error; when every stage succeeds the result is the last stage's.    *)
C8_ShortCircuit ==
    ~withHandler =>
        /\ InOrder
        /\ hcalls = <<>>
        /\ out.done =>
              IF FirstFailing # 0
              THEN /\ Len(calls) = FirstFailing
                   /\ ~IsOk(out.r)
                   /\ out.r.err = StageError(FirstFailing)
              ELSE /\ Len(calls) = NumStages
                   /\ out.r = Ok(Chain(NumStages))

\* C8 witness: the first stage succeeded, the second failed, the call is over.
C8_Witness ==
    /\ ~withHandler
    /\ out.done
    /\ FirstFailing = 2
    /\ NumStages \in failing
    /\ calls = <<<<1, input>>, <<2, Chain(1)>>>>
    /\ out.r = Err(StageError(2))

(* C9: with an error handler, when stage i (1-based, the last included) is *)
(* the first to fail, the handler is invoked exactly once with (i, that    *)
(* stage's error), no later stage is invoked and the handler's result,     *)
(* success or failure, is the overall result; when no stage fails the      *)
(* handler is never invoked.                                               *)
C9_ErrorHandler ==
    withHandler =>
        /\ InOrder
        /\ Len(hcalls) <= 1
        /\ out.done =>
              IF FirstFailing # 0
              THEN /\ Len(calls) = FirstFailing
                   /\ hcalls = <<<<FirstFailing, StageError(FirstFailing)>>>>
                   /\ out.r = errorHandler(handler, FirstFailing, StageError(FirstFailing))
              ELSE /\ Len(calls) = NumStages
                   /\ hcalls = <<>>
                   /\ out.r = Ok(Chain(NumStages))

\* C9 witness: the last stage failed and the handler recovered with a value.
C9_Witness ==
    /\ withHandler
    /\ out.done
    /\ FirstFailing = NumStages
    /\ hcalls = <<<<NumStages, StageError(NumStages)>>>>
    /\ handler = "fallback"
    /\ out.r = Ok(FallbackValue)
(***************************************************************************)
(* Claims about the curried wrapper.                                       *)
(***************************************************************************)
\* What a direct call of the original passes for the same arguments.
DirectArgs ==
    LET bound == [k \in 1..Len(fn.params) |-> env[k].val]
        RECURSIVE Flat(_)
        Flat(vs) == IF vs = <<>> THEN <<>>
                    ELSE (IF vs[1].agg THEN [k \in 1..Len(vs[1].v) |-> Scalar(vs[1].v[k])]
                                       ELSE <<vs[1]>>) \o Flat(Tail(vs))
    IN Flat(bound)

\* The names the declaration gives its parameters, in declared order.
DeclaredNames == [k \in 1..Len(fn.params) |-> paramName(fn.params[k], k - 1)]

StripSpread(x) == IF x[Len(x)] = "..." THEN SubSeq(x, 1, Len(x) - 1) ELSE x

\* The structure of the wrapper and what its full application passes on.
CurriedChainHolds ==
    /\ SubSeq(text, 4, 6) = <<K("func "), exportName(fn.name) \o <<"Curried">>, K("() ")>>
    /\ Cardinality(ClosureAt(text)) = Len(fn.params)
    /\ Formals(text) = DeclaredNames
    /\ Body(text)[CallOpen(Body(text)) - 1] = fn.name
    /\ LET exprs == ArgExprs(Body(text))
       IN /\ Len(exprs) = Len(fn.params)
          /\ \A k \in 1..Len(exprs) : StripSpread(exprs[k]) = DeclaredNames[k]
    /\ BodyReturns(Body(text)) <=> Len(fn.results) > 0
    /\ ~passed.done => applied < Len(fn.params)
    /\ passed.done =>
          /\ applied = Len(fn.params)
          /\ passed.args = DirectArgs
          /\ passed.returns <=> Len(fn.results) > 0

HasBlank == \E k \in 1..Len(fn.params) : fn.params[k].name = Blank

(* C10: for n >= 1 parameters the wrapper is named exportName(name) +       *)
(* Curried and takes no parameter; its body is exactly n nested            *)
(* single-parameter closures, one per parameter in declared order; the     *)
(* innermost statement calls the original with all n parameter names in    *)
(* declared order and returns its results; the chain applied to n          *)
(* arguments passes the original exactly those arguments.                  *)
C10_CurriedChain ==
    (text # <<>> /\ Len(fn.params) >= 1) => CurriedChainHolds

(* C10, where it does hold: the same statement for the functions none of   *)
(* whose parameters is declared _.                                         *)
C10_CurriedChainNoBlank ==
    (text # <<>> /\ Len(fn.params) >= 1 /\ ~HasBlank) => CurriedChainHolds

\* C10: a parameter declared _ reaches the original call as no value at all.
C10_BlankWitness ==
    /\ Len(fn.params) = 2
    /\ fn.params[1].name = Blank
    /\ fn.params[2].name = <<"b">>
    /\ passed.done
    /\ passed.args = <<Unbound, Scalar(2)>>

\* C10 witness: a one-parameter function: one closure, applied, the call made.
C10_Witness ==
    /\ Len(fn.params) = 1
    /\ Len(fn.results) = 1
    /\ fn.name = <<"a", "d", "d">>
    /\ Cardinality(ClosureAt(text)) = 1
    /\ passed.done
    /\ passed.args = <<Scalar(1)>>

(***************************************************************************)
(* Claims about variadic parameters of the curried wrapper.                *)
(***************************************************************************)
\* The type written in the k-th closure header and in the k-th level of the
\* wrapper's nested result type.
ClosureType(k) == text[SortedSeq(ClosureAt(text))[k] + 3]
SignatureType(k) == text[5 * k + 5]

\* The trailing arguments given to the variadic last step, and those the
\* original receives after the fixed ones.
TrailingGiven == env[Len(fn.params)].val.v
TrailingPassed ==
    LET fixed == Len(fn.params) - 1
    IN IF Len(passed.args) < fixed THEN <<Unbound>>
       ELSE SubSeq(passed.args, fixed + 1, Len(passed.args))

VariadicForwardingHolds ==
    /\ \A k \in 1..Len(fn.params) :
          /\ ClosureType(k) = fn.params[k].type
          /\ SignatureType(k) = fn.params[k].type
          /\ ArgExprs(Body(text))[k] =
                IF IsVariadic(fn.params[k].type)
                THEN paramName(fn.params[k], k - 1) \o <<"...">>
                ELSE paramName(fn.params[k], k - 1)
    /\ (passed.done /\ IsVariadic(fn.params[Len(fn.params)].type)) =>
          TrailingPassed = [j \in 1..Len(TrailingGiven) |-> Scalar(TrailingGiven[j])]

(* C11: a parameter whose type begins with ... keeps the marker in its     *)
(* closure's formal parameter and in the nested function type and is       *)
(* forwarded as name..., every other parameter by its plain name; the      *)
(* trailing arguments given to the last step (none, one or many) are the   *)
(* trailing arguments the original receives.                               *)
C11_VariadicForwarding ==
    (text # <<>> /\ Len(fn.params) >= 1) => VariadicForwardingHolds

(* C11, where it does hold: the same statement for the functions none of   *)
(* whose parameters is declared _.                                         *)
C11_VariadicForwardingNoBlank ==
    (text # <<>> /\ Len(fn.params) >= 1 /\ ~HasBlank) => VariadicForwardingHolds

\* C11: a variadic parameter declared _ : two trailing arguments are given
\* and the original receives none of them.
C11_BlankWitness ==
    /\ Len(fn.params) = 2
    /\ fn.params[1].name = <<"a">>
    /\ fn.params[2] = [name |-> Blank, type |-> <<"...", "string">>]
    /\ passed.done
    /\ TrailingGiven = <<7, 8>>
    /\ passed.args = <<Scalar(1), Unbound>>

\* C11: a named variadic parameter after a fixed one, two trailing arguments.
C11_Witness ==
    /\ Len(fn.params) = 2
    /\ fn.params[2] = [name |-> <<"b">>, type |-> <<"...", "string">>]
    /\ passed.done
    /\ passed.args = <<Scalar(1), Scalar(7), Scalar(8)>>

(***************************************************************************)
(* Claims about the wrapper of a function without parameters.              *)
(***************************************************************************)
\* What the wrapper's header declares between its () and its opening brace.
DeclaredResults ==
    IF text[6] = K("() {") THEN <<>>
    ELSE LET close == CHOOSE k \in 7..Len(text) :
                          text[k] = K(" {") /\ \A l \in 7..(k - 1) : text[l] # K(" {")
         IN SubSeq(text, 7, close - 1)

(* C12: for a function without parameters the wrapper takes no argument,   *)
(* has no closure, declares the original's result type(s) (none, one, or   *)
(* the tuple in declared order) and calls the original directly,           *)
(* returning its result(s) when there are any.                             *)
C12_ZeroParams ==
    (text # <<>> /\ Len(fn.params) = 0) =>
        /\ SubSeq(text, 4, 5) = <<K("func "), exportName(fn.name) \o <<"Curried">>>>
        /\ text[6] \in {K("() {"), K("() ")}
        /\ ClosureAt(text) = {}
        /\ DeclaredResults = resultTypes(fn)
        /\ Body(text)[Len(Body(text)) - 1] = fn.name
        /\ ArgExprs(Body(text)) = <<>>
        /\ BodyReturns(Body(text)) <=> Len(fn.results) > 0
        /\ passed.done => (passed.args = <<>> /\ (passed.returns <=> Len(fn.results) > 0))

(* C12, where it does hold: the same statement for at most one result.     *)
C12_ZeroParamsOneResult ==
    (Len(fn.results) <= 1) => C12_ZeroParams

\* C12: a function without parameters and with two results: the wrapper
\* declares the first result type only.
C12_TwoResultsWitness ==
    /\ Len(fn.params) = 0
    /\ fn.results = <<[name |-> <<>>, type |-> <<"int">>], [name |-> <<>>, type |-> <<"string">>]>>
    /\ passed.done
    /\ DeclaredResults = <<<<"int">>>>

(***************************************************************************)
(* Claims about the functional options constructor.                        *)
(***************************************************************************)
\* The options among the first n that assign field f.
Touching(f, n) == {k \in 1..n : opts[k].field = f}

\* The value field f must have after the first n options.
LastWrite(f, n) ==
    IF Touching(f, n) = {} THEN ZeroConfig[f]
    ELSE opts[CHOOSE k \in Touching(f, n) : \A l \in Touching(f, n) : l <= k].val

(* C13: the options constructor starts from the zero-valued struct and     *)
(* applies the options in the order given: each field ends with the value  *)
(* of the last option touching it, an untouched field keeps its zero       *)
(* value, and with no option the result is the zero-valued struct.         *)
C13_LastOptionWins ==
    /\ \A f \in ConfigFields : config[f] = LastWrite(f, nextOpt - 1)
    /\ returned =>
          /\ nextOpt = Len(opts) + 1
          /\ \A f \in ConfigFields : config[f] = LastWrite(f, Len(opts))
          /\ opts = <<>> => config = ZeroConfig

\* C13 witness: two options on the same field and one field left untouched.
C13_Witness ==
    /\ returned
    /\ opts = <<With("Port", 1), With("Host", 2), With("Port", 2)>>
    /\ config = [Host |-> 2, Port |-> 2, Debug |-> 0]

(***************************************************************************)
(* Claims about record synthesis.                                          *)
(***************************************************************************)
\* Non-empty, and the first character a lower-case letter.
StartsLower(str) == Len(str) > 0 /\ str[1] \in {"a", "n", "p"}

AllPrivate == StartsLower(st.name) /\ \A k \in 1..Len(st.fields) : StartsLower(st.fields[k])

(* C14: record synthesis generates something only when the type name and   *)
(* every field name are non-empty and start with a lower-case character;   *)
(* otherwise nothing is generated and no error is raised; when it          *)
(* generates, there is exactly one accessor per field, in declared order.  *)
C14_RecordPrivateOnly ==
    rec.done =>
        /\ rec.err = Nil
        /\ rec.generated <=> AllPrivate
        /\ ~rec.generated => rec.accessors = <<>>
        /\ rec.generated =>
              /\ Len(rec.accessors) = Len(st.fields)
              /\ \A k \in 1..Len(st.fields) : rec.accessors[k].field = st.fields[k]

\* C14 witness: private type with two private fields: two accessors in order.
C14_Witness ==
    /\ st = [name |-> <<"p">>, fields |-> <<<<"n">>, <<"a">>>>]
    /\ rec.generated
    /\ rec.accessors = <<[name |-> <<"N">>, field |-> <<"n">>], [name |-> <<"A">>, field |-> <<"a">>]>>

(***************************************************************************)
(* Claims about the directive of a struct declaration.                     *)
(***************************************************************************)
\* A comment line that begins with the marker, and what follows the marker.
Marked(c) == \E k \in 1..Len(c) : c[k] = "gofn:" /\ \A l \in 1..(k - 1) : c[l] \in {"//", " "}
Remainder(c) ==
    LET k == CHOOSE m \in 1..Len(c) : c[m] = "gofn:"
    IN SelectSeq(SubSeq(c, k + 1, Len(c)), LAMBDA x : x # " ")

HasMarked(doc) == ~doc.isNil /\ \E k \in 1..Len(doc.list) : Marked(doc.list[k])
FirstMarked(doc) ==
    doc.list[CHOOSE k \in 1..Len(doc.list) :
                 Marked(doc.list[k]) /\ \A l \in 1..(k - 1) : ~Marked(doc.list[l])]

\* The directive as the statement describes it.
StatedDirective ==
    IF HasMarked(decl.doc) THEN Remainder(FirstMarked(decl.doc))
    ELSE IF HasMarked(decl.blockDoc) THEN Remainder(FirstMarked(decl.blockDoc))
    ELSE <<>>

(* C15: the directive of a struct declaration is the trimmed remainder of  *)
(* the first gofn: line of its own doc comment when that comment has such  *)
(* a line, otherwise of the first gofn: line of the enclosing declaration  *)
(* block's doc comment; it is empty when no line matches.                  *)
C15_StructDirective ==
    directive.done => directive.dir = StatedDirective

\* The own doc comment's first gofn: line names no directive.
EmptyOwnDirective == HasMarked(decl.doc) /\ Remainder(FirstMarked(decl.doc)) = <<>>

(* C15, where it does hold: the same statement for the declarations whose  *)
(* own first gofn: line, if any, names a directive.                        *)
C15_StructDirectiveNamed ==
    (directive.done /\ ~EmptyOwnDirective) =>
        directive.dir = StatedDirective

\* C15: the own doc comment says `//gofn:` and the block says
\* `//gofn:record`: the block's directive is recorded.
C15_EmptyOwnWitness ==
    /\ decl.doc = [isNil |-> FALSE, list |-> <<<<"//", "gofn:">>>>]
    /\ decl.blockDoc = [isNil |-> FALSE, list |-> <<<<"//", "gofn:", "record">>>>]
    /\ directive.done
    /\ directive.dir = <<"record">>

(***************************************************************************)
(* Claims about ParseDir's failure handling.                               *)
(***************************************************************************)
SomeFileFails == \E k \in 1..Len(files) : files[k].status # "ok"

(* C16: if any file of the directory cannot be read or parsed, ParseDir    *)
(* returns an error and no StructInfo or FuncInfo at all, not even those   *)
(* of files scanned before the failing one; with no failing file it        *)
(* returns no error.                                                       *)
C16_ParseAborts ==
    scan.done =>
        /\ (globOk /\ SomeFileFails) =>
              (scan.err # Nil /\ scan.structs = <<>> /\ scan.funcs = <<>>)
        /\ (globOk /\ ~SomeFileFails) => scan.err = Nil
        /\ scan.err # Nil => (scan.structs = <<>> /\ scan.funcs = <<>>)

\* C16 witness: the first file was scanned and gave a struct, the second
\* cannot be parsed: an error and nothing else is returned.
C16_Witness ==
    /\ Len(files) = 2
    /\ files[1] = [status |-> "ok", decls |-> <<"struct", "func">>]
    /\ files[2].status = "unparsable"
    /\ structs = <<<<1, 1>>>>
    /\ scan.done
    /\ scan.err = "parse error"
    /\ scan.structs = <<>>

(***************************************************************************)
(* Claims about Reactive.                                                  *)
(***************************************************************************)
\* No call is between its Unlock and its `go callback` loop and every
\* callback started has run.
Quiet == gor = {} /\ \A p \in Writers : wpc[p].at = "idle"

\* The changes made while subscription i was in r.subscribers.
Owed(i) == {n \in 1..Len(log) : i \in log[n].snap}

\* The changes the callback of subscription i has been run for.
Delivered(i) == {received[i][k] : k \in 1..Len(received[i])}

NoRepeat(s) == \A j, k \in 1..Len(s) : j # k => s[j] # s[k]
InCallOrder(s) == \A j, k \in 1..Len(s) : j < k => s[j] < s[k]

ExactlyOnce(i) ==
    /\ NoRepeat(received[i])
    /\ Delivered(i) \subseteq Owed(i)
    /\ Quiet => Delivered(i) = Owed(i)

(* C17: a subscriber's callback is run exactly once for every Set/Update   *)
(* made while it is subscribed, and the runs come in the order in which    *)
(* the Set/Update calls were made.                                         *)
C17_InOrderOnce ==
    \A i \in SubIds : ExactlyOnce(i) /\ InCallOrder(received[i])

\* The part of C17 the code keeps: exactly one run per change, in any order.
C17_ExactlyOnce == \A i \in SubIds : ExactlyOnce(i)

\* C17 witness: subscription 1 was there for changes 1 and 2, both
\* callbacks have run, the one for change 2 first.
C17_ReorderedWitness ==
    /\ Quiet
    /\ Owed(1) = {1, 2}
    /\ received[1] = <<2, 1>>

\* The changes that took the lock after Unsubscribe(i) had returned.
AfterUnsubscribe(i) ==
    IF subLife[i].to = -1 THEN {} ELSE {n \in 1..Len(log) : n > subLife[i].to}

\* The subscriptions in force when change n took the lock, by the history
\* of the Subscribe and Unsubscribe calls that had returned by then.
StillSubscribed(n) ==
    {j \in SubIds : /\ subLife[j].from # -1
                    /\ subLife[j].from < n
                    /\ (subLife[j].to = -1 \/ subLife[j].to >= n)}

\* The callback of subscription i has been started or run for change n.
Invoked(i, n) == n \in Delivered(i) \/ \E g \in gor : g.sub = i /\ g.n = n

(* C18: after Unsubscribe(id) has returned, the callback registered under  *)
(* id is not invoked for any Set or Update that starts afterwards, and     *)
(* every other callback still subscribed is notified of each such change.  *)
C18_UnsubscribeStops ==
    \A i \in SubIds : \A n \in AfterUnsubscribe(i) :
        /\ ~Invoked(i, n)
        /\ \A j \in StillSubscribed(n) \ {i} :
              /\ j \in log[n].snap
              /\ Quiet => n \in Delivered(j)

\* C18 witness: subscription 1 got change 1 and was unsubscribed, change 2
\* followed and was delivered to subscription 2 only.
C18_Witness ==
    /\ Quiet
    /\ subLife[1] = [from |-> 0, to |-> 1]
    /\ subLife[2].from = 0 /\ subLife[2].to = -1
    /\ Len(log) = 2
    /\ received[1] = <<1>>
    /\ Delivered(2) = {1, 2}

\* The goroutines between the Unlock of their Set or Update and the end of
\* its `go callback` loop, by lock id.
Notifying ==
    {p \in Writers : wpc[p].at = "notify"}
    \cup {GorId(g) : g \in {h \in gor : h.at = "notify"}}

\* A callback started and not yet run that calls back into the Reactive.
Reentering == {g \in gor : g.kind = "reenter" /\ g.at = "start"}

\* The snapshots of the calls that are notifying.
NotifyingCalls ==
    {wpc[p].call : p \in {q \in Writers : wpc[q].at = "notify"}}
    \cup {g.call : g \in {h \in gor : h.at = "notify"}}

(* C19: Set and Update run the callbacks after releasing the lock, from    *)
(* the subscribers copied under the lock: no goroutine that is notifying   *)
(* holds the lock, every callback started belongs to the snapshot of its   *)
(* change whatever Subscribe and Unsubscribe did since, a callback that    *)
(* calls Get, Set, Update, Subscribe or Unsubscribe on the same Reactive   *)
(* finds the lock free, and a goroutine can always take a step unless      *)
(* every call has returned and every callback has run.                     *)
C19_NotifyOutsideLock ==
    /\ rmutex \notin Notifying
    /\ \A g \in gor : g.sub \in log[g.n].snap
    /\ \A c \in NotifyingCalls : DOMAIN c.snap = log[c.n].snap
    /\ Reentering # {} => rmutex = 0
    /\ ~Quiet => ENABLED ReactStep

\* C19 witness: a callback that calls back into the Reactive is about to
\* run while the subscribers have changed since the snapshot it came from.
C19_Witness ==
    \E g \in Reentering :
        /\ log[g.n].snap # DOMAIN rsubs
        /\ Notifying # {}

(***************************************************************************)
(* Claims about MapReactive.                                               *)
(***************************************************************************)
\* The source's latest change the mapped Reactive was set from.
LastMapped == mapped.sets[Len(mapped.sets)]

(* C20: for mapped = MapReactive(source, transform), once every            *)
(* notification of the source.Set calls made has been delivered,           *)
(* mapped.Get() equals transform(source.Get()).                            *)
C20_MapConverges ==
    (MapMade /\ Quiet) => mapped.value = transform(rvalue)

\* What the code keeps: the mapped value is the transform of the value of
\* the change whose callback ran last, or of the source at construction.
C20_MapFollowsLastRun ==
    (MapMade /\ Quiet /\ mapped.sets # <<>>) =>
        mapped.value = transform(log[LastMapped].new)

\* C20 witness: two Sets after MapReactive, both callbacks have run, the
\* one of the first Set last: the mapped value is that of the older value.
C20_StaleWitness ==
    /\ MapMade /\ Quiet
    /\ mapped.sets = <<2, 1>>
    /\ rvalue = log[2].new
    /\ mapped.value = transform(log[1].new)
    /\ mapped.value # transform(rvalue)

(***************************************************************************)
(* Claims about FilterReactive.                                            *)
(***************************************************************************)
\* Every result.Set the filter callback made was for a change whose new
\* value satisfies the predicate, and the value is that of the last one.
FilterPasses ==
    /\ \A k \in 1..Len(mapped.sets) : predicate(log[mapped.sets[k]].new)
    /\ mapped.sets # <<>> => mapped.value = log[LastMapped].new

(* C21: for filtered = FilterReactive(source, pred) the derived value is   *)
(* always the zero value or a source value that satisfied pred (so the     *)
(* initial value is the zero value when the source's current value fails   *)
(* pred), and a source.Set with a value failing pred neither changes it    *)
(* nor notifies its subscribers.                                           *)
C21_FilterValue ==
    mapped.made =>
        /\ mapped.value = 0 \/ predicate(mapped.value)
        /\ FilterPasses

\* What the code keeps: only passing values are set after construction.
C21_FilterAfterConstruction == mapped.made => FilterPasses

\* C21 witness: the source held a non-zero value failing the predicate
\* when FilterReactive was called; the derived Reactive holds that value.
C21_InitialWitness ==
    /\ MapMade /\ Quiet
    /\ Len(log) = 1 /\ log[1].snap = {}
    /\ rvalue = 1 /\ ~predicate(rvalue)
    /\ mapped.sets = <<>>
    /\ mapped.value = 1

(***************************************************************************)
(* Claims about SequenceTasks.                                             *)
(***************************************************************************)
\* The iterations whose select found the context done.
SeenDone == {k \in 1..Len(sseen) : sseen[k] # Nil}

\* The tasks invoked that returned a failure.
FailedTasks == {k \in 1..Len(sinvoked) : ~IsOk(tasks[sinvoked[k]])}

(* C22: SequenceTasks invokes the tasks one at a time in slice order; on   *)
(* the first task returning a failure it returns that task's error and     *)
(* invokes no later task; when the context is done as a task is about to   *)
(* start, that task and the later ones are not invoked and the result is   *)
(* Err(ctx.Err()); when all succeed the result holds the values in task    *)
(* order.                                                                  *)
C22_SequenceInOrder ==
    /\ sinvoked = [k \in 1..Len(sinvoked) |-> k]
    /\ Len(sinvoked) <= Len(tasks)
    /\ \A k \in FailedTasks :
          /\ k = Len(sinvoked)
          /\ spc = "done" /\ sout = [val |-> <<>>, err |-> tasks[k].err]
    /\ \A k \in SeenDone :
          /\ Len(sinvoked) = k - 1
          /\ spc = "done" /\ sout = [val |-> <<>>, err |-> sseen[k]]
    /\ (spc = "done" /\ FailedTasks = {} /\ SeenDone = {}) =>
          /\ Len(sinvoked) = Len(tasks)
          /\ sout = [val |-> [k \in 1..Len(tasks) |-> tasks[k].val], err |-> Nil]

\* C22 witness: the first task succeeded, the context was cancelled while
\* it ran, so the second and third were never invoked.
C22_Witness ==
    /\ Len(tasks) = 3
    /\ spc = "done"
    /\ sseen = <<Nil, "context canceled">>
    /\ sinvoked = <<1>>
    /\ sout = [val |-> <<>>, err |-> "context canceled"]

(***************************************************************************)
(* Claims about RaceFutures, FirstCompleted and RaceTasks.                 *)
(***************************************************************************)
\* The inputs that have completed successfully, in completion order.
Succeeded == SelectSeq(rcompleted, LAMBDA i : IsOk(rin[i].r))

(* C23: RaceFutures over a non-empty list completes its future with the    *)
(* value of the input that completed successfully first, ignoring inputs   *)
(* that fail; over an empty list the future is already completed with the  *)
(* context.Canceled error.                                                 *)
C23_RaceFirstSuccess ==
    (rmode = "RaceFutures" /\ rfut.made) =>
        /\ rin = <<>> => (rfut.done /\ rfut.result = Err("context canceled"))
        /\ (rin # <<>> /\ rfut.done) =>
              (Succeeded # <<>> /\ rfut.result = Ok(rin[Succeeded[1]].r.val))

\* What the code keeps: the value is that of the successful input whose
\* goroutine was the first to call Complete.
C23_RaceSomeSuccess ==
    (rmode = "RaceFutures" /\ rfut.made) =>
        /\ rin = <<>> => (rfut.done /\ rfut.result = Err("context canceled"))
        /\ (rin # <<>> /\ rfut.done) =>
              /\ rstored # <<>>
              /\ IsCompleted(rstored[1]) /\ IsOk(rin[rstored[1]].r)
              /\ rfut.result = Ok(rin[rstored[1]].r.val)

\* C23 witness: input 1 completed with 1, then input 2 with 2; the
\* goroutine of input 2 ran first and the future holds 2.
C23_LaterWinsWitness ==
    /\ rmode = "RaceFutures"
    /\ rin = <<[completes |-> TRUE, r |-> Ok(1)], [completes |-> TRUE, r |-> Ok(2)]>>
    /\ rcompleted = <<1, 2>>
    /\ rstored = <<2, 1>>
    /\ rfut.done /\ rfut.result = Ok(2)

\* The result was stored once and by the goroutine that called complete
\* first; later calls changed nothing.
FirstStoredKept ==
    rfut.done =>
        /\ rstored # <<>>
        /\ IsCompleted(rstored[1])
        /\ rfut.result = rin[rstored[1]].r

(* C24: FirstCompleted over a non-empty list completes its future with     *)
(* the result, success or failure alike, of whichever input completed      *)
(* first; results of inputs completing later never replace it.             *)
C24_FirstCompleted ==
    (rmode = "FirstCompleted" /\ rin # <<>> /\ rfut.done) =>
        /\ rcompleted # <<>>
        /\ rfut.result = rin[rcompleted[1]].r
        /\ FirstStoredKept

\* What the code keeps: the result of the input whose goroutine called
\* complete first, never replaced afterwards.
C24_FirstStored ==
    (rmode = "FirstCompleted" /\ rin # <<>>) => FirstStoredKept

\* C24 witness: input 1 completed with a failure, then input 2 with 2; the
\* goroutine of input 2 ran first and the future holds 2.
C24_LaterWinsWitness ==
    /\ rmode = "FirstCompleted"
    /\ rin = <<[completes |-> TRUE, r |-> Err("boom")], [completes |-> TRUE, r |-> Ok(2)]>>
    /\ rcompleted = <<1, 2>>
    /\ rstored = <<2, 1>>
    /\ rfut.done /\ rfut.result = Ok(2)

\* No input completes successfully: each fails or never completes.
NoneSucceeds == \A i \in 1..Len(rin) : ~rin[i].completes \/ ~IsOk(rin[i].r)

(* C27: for a non-empty list the future returned by RaceFutures is only    *)
(* ever completed with a success value, and when every input fails or      *)
(* never completes it is never completed, so Await on it never returns;    *)
(* RaceTasks with every task failing returns only when its context is      *)
(* done, with the context's error.                                         *)
C27_RaceNeverFails ==
    /\ (rmode = "RaceFutures" /\ rin # <<>>) =>
          /\ rfut.done => IsOk(rfut.result)
          /\ NoneSucceeds => ~rfut.done
    /\ (rmode = "RaceTasks" /\ rin # <<>> /\ NoneSucceeds /\ rfut.done) =>
          (rctx # Nil /\ rfut.result = Err(rctx))

\* C27 witness: both inputs of RaceFutures have failed, both goroutines
\* have exited and the returned future is still not completed.
C27_Witness ==
    /\ rmode = "RaceFutures"
    /\ Len(rin) = 2 /\ NoneSucceeds
    /\ Len(rcompleted) = 2
    /\ rfut.made /\ ~rfut.done
    /\ \A i \in 1..2 : rwatch[i] = "exited"

(***************************************************************************)
(* Claims about the names of anonymous parameters in the curried wrapper.  *)
(***************************************************************************)
\* The parameters declared without a name, by position (from 1).
Anonymous == {k \in 1..Len(fn.params) : fn.params[k].name = <<>>}

\* Parameter k (index k - 1) is called stem<k-1> in its closure's formal
\* parameter and in the argument list of the final call, and the text is
\* what generating again from the same FuncInfo gives.
NamedByIndex(stem) ==
    /\ \A k \in Anonymous :
          /\ Formals(text)[k] = <<stem, Digits[k]>>
          /\ StripSpread(ArgExprs(Body(text))[k]) = <<stem, Digits[k]>>
    /\ text = generateCurriedFunc(fn)

(* C25 as stated: a parameter with an empty name at index i is given the   *)
(* synthetic name argument<i>, used identically in its closure's formal    *)
(* parameter and in the final call's argument list; regenerating from      *)
(* unchanged input yields the same text.                                   *)
C25_ArgumentNames == text # <<>> => NamedByIndex("argument")

(* C25 amended: the synthetic name is p<i>: the letter p followed by the   *)
(* index, used identically in the closure's formal parameter and in the    *)
(* final call's argument list; regenerating yields the same text.          *)
C25_SyntheticNames == text # <<>> => NamedByIndex("p")

\* C25 witness: two anonymous parameters, the wrapper written and applied:
\* the closures take p0 and p1 and the call passes p0, p1.
C25_Witness ==
    /\ Anonymous = {1, 2}
    /\ Formals(text) = <<<<"p", "0">>, <<"p", "1">>>>
    /\ ArgExprs(Body(text)) = <<<<"p", "0">>, <<"p", "1">>>>
    /\ passed.done
    /\ passed.args = <<Scalar(1), Scalar(2)>>

(***************************************************************************)
(* Claims about the structs ParseDir reports for a file.                   *)
(***************************************************************************)
InspectDone == anext > Len(TypeSpecNodes(afile, 1))

\* The struct types among the TypeSpecs chosen by keep, in source order,
\* each with one field entry per declared name.
StructsAmong(keep(_)) ==
    LET ns == SelectSeq(TypeSpecNodes(afile, 1), LAMBDA n : n.type.isStruct /\ keep(n))
    IN [k \in 1..Len(ns) |-> [at |-> ns[k].at, fields |-> fieldInfos(ns[k].type.fields)]]

IsTopLevel(n) == ~n.local
AnyDepth(n) == TRUE

(* C26: ParseDir reports exactly the top-level struct type declarations    *)
(* of a file: each yields exactly one StructInfo, a struct type declared   *)
(* inside a function body yields none; its fields appear in declaration    *)
(* order, a field list a, b T giving one entry per name.                   *)
C26_TopLevelStructs ==
    InspectDone => astructs = StructsAmong(IsTopLevel)

\* What the code does: one StructInfo per struct type at any depth.
C26_AllStructs ==
    InspectDone => astructs = StructsAmong(AnyDepth)

\* C26 witness: the file holds one function whose body declares a struct
\* type with the fields a, b T; ParseDir reports it, with two fields.
C26_LocalWitness ==
    /\ Len(afile) = 1
    /\ afile[1].kind = "func"
    /\ InspectDone
    /\ astructs = <<[at |-> <<1, 1>>,
                     fields |-> <<[name |-> "a", type |-> "T"], [name |-> "b", type |-> "T"]>>]>>

(***************************************************************************)
(* Claims about concurrent Set and Update.                                 *)
(***************************************************************************)
\* The Updates among the first k writes.
UpdatesUpTo(k) == {j \in 1..k : ulog[j].op = "Update"}

\* The last Set among the first k writes, 0 when there is none.
LastSetUpTo(k) ==
    LET sets == {j \in 1..k : ulog[j].op = "Set"}
    IN IF sets = {} THEN 0 ELSE CHOOSE j \in sets : \A l \in sets : l <= j

(* C28: Update reads the value, applies fn and stores the result inside    *)
(* one critical section: no Set or other Update takes effect between an    *)
(* Update's read and its write, and concurrent Updates are applied one     *)
(* after another with none lost (k increments raise the value by k).       *)
C28_UpdateAtomic ==
    /\ Cardinality(umutex) <= 1
    /\ \A k \in 1..Len(ulog) :
          /\ ulog[k].seen = ulog[k].before
          /\ ulog[k].op = "Update" => ulog[k].new = UpdateFn(ulog[k].before)
    /\ LET s == LastSetUpTo(Len(ulog))
           base == IF s = 0 THEN 0 ELSE ulog[s].new
       IN uvalue = base + Cardinality(UpdatesUpTo(Len(ulog)) \ UpdatesUpTo(s))

\* C28 witness: three Updates by the two goroutines, the first two by
\* different ones, have raised the value from 0 to 3.
C28_Witness ==
    /\ Len(ulog) = 3
    /\ \A k \in 1..3 : ulog[k].op = "Update"
    /\ ulog[1].by # ulog[2].by
    /\ upc[ulog[1].by].at = "notify"
    /\ uvalue = 3

(* C29: every notification dispatched by Set/Update carries (old, new)     *)
(* with old the value stored immediately before new was written: in the    *)
(* order in which the changes took the lock each change's old is the       *)
(* previous change's new, the first one's old is the initial value.        *)
C29_OldNewChain ==
    \A d \in 1..Len(udisp) :
        LET c == udisp[d]
        IN /\ c.new = ulog[c.n].new
           /\ c.old = IF c.n = 1 THEN 0 ELSE ulog[c.n - 1].new

\* C29 witness: a Set and an Update by different goroutines, dispatched in
\* the opposite order: the pairs are (5, 6) and then (0, 5).
C29_Witness ==
    /\ Len(ulog) = 2
    /\ ulog[1].by # ulog[2].by
    /\ udisp = <<[n |-> 2, old |-> 5, new |-> 6], [n |-> 1, old |-> 0, new |-> 5]>>

(***************************************************************************)
(* Claims about Result.                                                    *)
(***************************************************************************)
\* The error handed to the constructor: nil for Ok.
GivenError == IF built.ctor = "Err" THEN built.arg ELSE Nil

\* The last combinator treated its input as a success: f was called once,
\* with the input's value, and the outcome is what f gave.
TreatedAsOk ==
    /\ applied1.called = <<applied1.in.val>>
    /\ applied1.op = "Map" => applied1.out = Ok(MapFn(applied1.fn, applied1.in.val))
    /\ applied1.op = "AndThen" => applied1.out = AndThenFn(applied1.fn, applied1.in.val)

\* The last combinator treated its input as a failure: f was not called
\* and the outcome is a failure carrying the input's error.
TreatedAsErr ==
    /\ applied1.called = <<>>
    /\ ~IsOk(applied1.out)
    /\ applied1.out.err = applied1.in.err

(* C30: IsOk holds exactly when the stored error is nil, whichever          *)
(* constructor built the Result: Err(nil) is the same as Ok(zero value),    *)
(* IsOk is true of it, Map and AndThen apply f to the zero value and        *)
(* FromResult turns it into a Right; for a non-nil error e, Map and         *)
(* AndThen on Err(e) never call f and yield a failure carrying e.           *)
C30_IsOkIffNilError ==
    /\ (operand.made /\ nops = 0) =>
          /\ IsOk(operand.r) <=> GivenError = Nil
          /\ (built.ctor = "Err" /\ built.arg = Nil) =>
                (operand.r = Ok(Zero) /\ operand.r.val = Zero)
          /\ (built.ctor = "Err" /\ built.arg # Nil) => operand.r.err = built.arg
    /\ applied1.op \in {"Map", "AndThen"} =>
          IF applied1.in.err = Nil THEN TreatedAsOk ELSE TreatedAsErr
    /\ applied1.op = "FromResult" =>
          applied1.either = IF applied1.in.err = Nil THEN Right(applied1.in.val)
                            ELSE Left(applied1.in.err)

\* C30 witness: Err(nil) was built and passed to Map, which called f on the
\* zero value and gave Ok(f(0)).
C30_Witness ==
    /\ built.ctor = "Err" /\ built.arg = Nil
    /\ nops = 1
    /\ applied1.op = "Map" /\ applied1.fn = "succ"
    /\ applied1.called = <<Zero>>
    /\ applied1.out = Ok(1)
====
